---- MODULE Spec2Model ----
(***************************************************************************)
(* Model of the Instagram draft-message automation:                        *)
(*   main_messageDrafter.js  run(), processUser(), navigateToProfile()     *)
(*   messageDrafter.js       draftMessage()                                *)
(*   envValidator.js         validateEnv()                                 *)
(*   sheetsManager.js        loadDatabaseRows(), updateDraftData()         *)
(*   databaseLoader.js       loadFilteredDatabase()                        *)
(* Text is a sequence of UTF-16 code units, as a string of the program is. *)
(* A code unit is written as the one-character string that holds it, or,   *)
(* where a string of a module cannot hold it, as "U+" and its four         *)
(* hexadecimal digits: "A", "é", "Σ", "U+0410", "U+D801".  The browser     *)
(* page, the sheet API and the helper modules that are called but not      *)
(* defined in these files (openDMController, detectExistingConversation,   *)
(* extractFirstName, humanDelay) are the environment: each call returns    *)
(* one of the results its caller distinguishes, or throws.                 *)
(***************************************************************************)
EXTENDS Integers, Sequences, FiniteSets, TLC

VARIABLES
    pc,                \* position of run(): the next step to execute
    dryRun,            \* isDryRun(): the --dry-run flag
    processEnv,        \* the other variables of process.env
    envDraftMessage,   \* process.env.DRAFT_MESSAGE
    maxDraft,          \* config.maxDraft
    database,          \* data rows of the sheet (sheet row 2 onwards), as cells
    reads,             \* number of reads of the sheet issued so far
    browser,           \* run()'s browser: "null" or "launched"
    reported,          \* rows listed by the dry run
    filteredRows,      \* rows returned by loadFilteredDatabase()
    profileNames,      \* first names the visited profiles can show
    site,              \* what the message views of the run can hold: the sets of
                       \* selectors that match, the texts left in the input, and
                       \* what a call on the page can reject with
    i,                 \* loop index of run() (1-based here)
    draftedCount, skippedCount, errorCount,
    tabs,              \* tabs[k]: tab of filteredRows[k]: "none", "open", "closed"
    stage,             \* stage[k]: how far run() has taken filteredRows[k]: "pending",
                       \* "allocated" (tab created), "written" (write-back attempt
                       \* finished), "settled" (tab kept or close() attempted)
    closeResult,       \* userPage.close() of this iteration: "none", "ok", "fault" (it
                       \* rejected with an Error), "null" or "undefined" (it rejected
                       \* with that value)
    sheet,             \* sheet[rowIndex]: Status column of that row
    lastWrite,         \* the updateDraftData call of this iteration
    result,            \* processUser's result object
    userError,         \* message of the error processUser rejected with, caught by
                       \* run(); "none" while there is none
    draftingSucceeded, \* run()'s per-iteration flag
    hasConversation,   \* conversationResult.hasConversation: "none", "true", "false"
    firstName, nameFound, message, input, typedText,   \* draftMessage locals
    draftResult,       \* value returned by draftMessage
    field,             \* text in the input element of the current tab
    keystrokes,        \* characters typed one at a time so far in this draft
    pageOps,           \* kinds of operation issued so far on the current tab
    draftCalls,        \* number of draftMessage calls of this iteration
    calls,             \* the calls processUser has made for this account, in order,
                       \* each with what it returned or threw
    locator            \* the selector queries of the current draftMessage call, until
                       \* the located input is used: which selectors match, and how
                       \* many were queried

VARIABLES
    runs,              \* number of the run, when the program is run repeatedly on
                       \* the same sheet
    draftedEarlier     \* usernames whose row an earlier run has written as Drafted

history == << runs, draftedEarlier >>

vars == << pc, dryRun, processEnv, envDraftMessage, maxDraft, database, reads, browser,
           reported, filteredRows, profileNames, site, history, i,
           draftedCount, skippedCount, errorCount, tabs, stage, closeResult, sheet,
           lastWrite, result, userError, draftingSucceeded, hasConversation, firstName,
           nameFound, message, input, typedText, draftResult, field, keystrokes,
           pageOps, draftCalls, calls, locator >>

(* ------------------------------ bounds -------------------------------- *)
MaxRows == 3
MaxDraftCap == 2
MaxTemplateLen == 2
MaxNameLen == 2
MaxDataRows == 3
MaxProcessCap == 2
MaxRuns == 2
MaxRunRows == 1

(* --------------------------- program constants ------------------------ *)
FirstTenLen == 10
NumSelectors == 5

(* ------------------------------- text --------------------------------- *)
Undefined == << "undefined" >>

Min(a, b) == IF a < b THEN a ELSE b

SeqsUpTo(S, n) == UNION { [1..k -> S] : k \in 0..n }

\* the white space and line terminators String.prototype.trim strips: tab,
\* line feed, vertical tab, form feed, carriage return, the space separators
\* (space, no-break space, Ogham space mark, U+2000 to U+200A, U+202F, U+205F,
\* U+3000), the line and paragraph separators and the byte order mark
WhiteSpace ==
    { "\t", "\n", "", "\f", "\r", " ", " ", " ",
      "U+2000", "U+2001", "U+2002", "U+2003", "U+2004", "U+2005", "U+2006",
      "U+2007", "U+2008", "U+2009", "U+200A", "U+2028", "U+2029", "U+202F",
      "U+205F", "U+3000", "﻿" }

IsWhitespace(c) == c \in WhiteSpace

RECURSIVE TrimStart(_)
TrimStart(s) ==
    IF s = << >> THEN << >>
    ELSE IF IsWhitespace(Head(s)) THEN TrimStart(Tail(s)) ELSE s

RECURSIVE TrimEnd(_)
TrimEnd(s) ==
    IF s = << >> THEN << >>
    ELSE IF IsWhitespace(s[Len(s)]) THEN TrimEnd(SubSeq(s, 1, Len(s) - 1)) ELSE s

\* String.prototype.trim
Trim(s) == TrimEnd(TrimStart(s))

\* String.prototype.indexOf(c): 0-based index of the first c, or -1
IndexOf(s, c) ==
    IF \E k \in 1..Len(s) : s[k] = c
    THEN (CHOOSE k \in 1..Len(s) : s[k] = c /\ \A j \in 1..(k - 1) : s[j] # c) - 1
    ELSE -1

\* String.prototype.slice(from, to), 0-based, to exclusive, 0 <= from, to
Slice(s, from, to) == SubSeq(s, Min(from, Len(s)) + 1, Min(to, Len(s)))

SliceFrom(s, from) == Slice(s, from, Len(s))

WhatsUp == << "W", "h", "a", "t", "'", "s", " ", "u", "p", " " >>

\* the fallback text of messageDrafter.js when DRAFT_MESSAGE is unset
DefaultMessage ==
    << "W", "h", "a", "t", "'", "s", " ", "u", "p", "!", " ", "G", "r",
       "e", "a", "t", " ", "s", "e", "e", "i", "n", "g", " ", "y", "o",
       "u", " ", "h", "e", "r", "e", ".", " ", "A", "r", "e", " ", "y",
       "o", "u", " ", "h", "e", "r", "e", " ", "f", "o", "r", " ", "t",
       "h", "e", " ", "f", "r", "e", "e", " ", "c", "o", "n", "t", "e",
       "n", "t", " ", "o", "r", " ", "a", "r", "e", " ", "y", "o", "u",
       " ", "i", "n", "t", "e", "r", "e", "s", "t", "e", "d", " ", "i",
       "n", " ", "b", "u", "y", "i", "n", "g", " ", "h", "o", "t", "e",
       "l", "s", "?" >>

TemplateAlphabet == {"H", "!", " "}
NameAlphabet == {"A", " "}

\* DRAFT_MESSAGE values validateEnv accepts: non-empty after trim()
ValidDraftMessage(s) == s # Undefined /\ s # << >> /\ Trim(s) # << >>

Templates == { s \in SeqsUpTo(TemplateAlphabet, MaxTemplateLen) : ValidDraftMessage(s) }

\* firstName values extractFirstName may report
FirstNames == SeqsUpTo(NameAlphabet, MaxNameLen) \cup {Undefined}

\* the texts of the runs over several accounts
RunTemplates == { << "H", "i" >> }
RunFirstNames == { << "A" >>, Undefined }

\* DRAFT_MESSAGE values of exactly FirstTenLen and FirstTenLen + 1 characters
BoundaryTemplates ==
    { [k \in 1..FirstTenLen |-> "H"], [k \in 1..(FirstTenLen + 1) |-> "H"] }

\* what the located input may hold before the draft is written: nothing, or
\* text left in it
StaleTexts == { << >>, << "z" >> }

\* what a call made by draftMessage may reject with: an Error, written as its
\* message, or a value that is no object
DraftFaults == {"page fault", "null", "undefined"}

\* every message view: any set of the selectors may match, and a call on the
\* page may reject with an Error, with null or with undefined
AnyView == [matchings |-> SUBSET (1..NumSelectors), texts |-> StaleTexts,
            faults |-> DraftFaults]

\* the message views of the runs over several accounts: no input, the first
\* selector, or the second and the fourth; a call on the page may reject with
\* an Error
RunView == [matchings |-> { {}, {1}, {2, 4} }, texts |-> { << >> },
            faults |-> {"page fault"}]

(* --------------------------- messageDrafter.js ------------------------ *)
\* baseMessage: process.env.DRAFT_MESSAGE || <fallback>
BaseMessage(env) == IF env = Undefined \/ env = << >> THEN DefaultMessage ELSE env

\* `nameFound && firstName.trim()` throws a TypeError on a missing firstName
ComposeThrows(fn, nf) == nf /\ fn = Undefined

\* a variant of ComposeMessage that personalises whether or not the name was found
ComposeIgnoringNameFound(baseMessage, fn, nf) ==
    IF Trim(fn) # << >>
    THEN LET idx == IndexOf(baseMessage, "!")
         IN  IF idx = -1
             THEN WhatsUp \o Trim(fn) \o << "!", " " >> \o baseMessage
             ELSE Slice(baseMessage, 0, idx) \o << " " >> \o Trim(fn)
                      \o SliceFrom(baseMessage, idx)
    ELSE baseMessage

\* a variant of ComposeMessage that inserts the name after the "!"
ComposeAfterBang(baseMessage, fn, nf) ==
    IF nf /\ Trim(fn) # << >>
    THEN LET idx == IndexOf(baseMessage, "!")
         IN  IF idx = -1
             THEN WhatsUp \o Trim(fn) \o << "!", " " >> \o baseMessage
             ELSE Slice(baseMessage, 0, idx + 1) \o << " " >> \o Trim(fn)
                      \o SliceFrom(baseMessage, idx + 1)
    ELSE baseMessage

\* the personalised message built from baseMessage
ComposeMessage(baseMessage, fn, nf) ==
    IF nf /\ Trim(fn) # << >>
    THEN LET idx == IndexOf(baseMessage, "!")
         IN  IF idx = -1
             THEN WhatsUp \o Trim(fn) \o << "!", " " >> \o baseMessage
             ELSE Slice(baseMessage, 0, idx) \o << " " >> \o Trim(fn)
                      \o SliceFrom(baseMessage, idx)
    ELSE baseMessage

\* the candidate selectors of the message input, in the order they are tried
Selectors ==
    << "p[contenteditable=\"true\"]", "div[contenteditable=\"true\"]",
       "p[dir=\"auto\"][contenteditable]", "textarea", "div[role=\"textbox\"]" >>

\* a variant of FirstMatch that prefers the last selector of the list
LastMatch(matching) ==
    IF matching = {} THEN 0
    ELSE CHOOSE k \in matching : \A j \in matching : k >= j

\* the first selector of the list that matches, 0 when none does
FirstMatch(matching) ==
    IF matching = {} THEN 0
    ELSE CHOOSE k \in matching : \A j \in matching : k <= j

FirstTen(m) == Slice(m, 0, FirstTenLen)

\* a variant of Remainder that starts one character late
RemainderOffByOne(m) == SliceFrom(m, FirstTenLen + 1)

Remainder(m) == SliceFrom(m, FirstTenLen)

\* a variant of Verified that compares without trimming
VerifiedExact(o, m) == o # Undefined /\ o # << >> /\ o = m

\* typedText && typedText.trim() === message.trim()
Verified(o, m) == o # Undefined /\ o # << >> /\ Trim(o) = Trim(m)

\* what the page may render for the text f written into the element
Observations(f) ==
    { f, << " " >> \o f \o << " " >>, Trim(f), Append(f, "x"),
      SubSeq(f, 1, Len(f) - 1), << "x" >> \o Tail(f),
      << " " >>, << >>, Undefined }

(* ----------------------------- envValidator.js ------------------------ *)
\* String.prototype.toLowerCase follows the case mappings of the Unicode
\* Character Database: the lower-case mappings of UnicodeData.txt and, of
\* SpecialCasing.txt, the mapping of U+0130 and the Final_Sigma mapping.  The
\* tables are those of the runtime the program runs on; the tables below are
\* those of Unicode 17.0 (Node.js 20.20).

\* the code units that are letters with a lower-case letter, and their
\* lower-case letters in the same order
UpperCase ==
    << "A", "B", "C", "D", "E", "F", "G", "H", "I", "J", "K", "L", "M", "N", "O", "P",
       "Q", "R", "S", "T", "U", "V", "W", "X", "Y", "Z", "À", "Á", "Â", "Ã", "Ä", "Å",
       "Æ", "Ç", "È", "É", "Ê", "Ë", "Ì", "Í", "Î", "Ï", "Ð", "Ñ", "Ò", "Ó", "Ô", "Õ",
       "Ö", "Ø", "Ù", "Ú", "Û", "Ü", "Ý", "Þ", "U+0100", "U+0102", "U+0104", "U+0106",
       "U+0108", "U+010A", "U+010C", "U+010E", "U+0110", "U+0112", "U+0114", "U+0116",
       "U+0118", "U+011A", "U+011C", "U+011E", "U+0120", "U+0122", "U+0124", "U+0126",
       "U+0128", "U+012A", "U+012C", "U+012E", "U+0132", "U+0134", "U+0136", "U+0139",
       "U+013B", "U+013D", "U+013F", "U+0141", "U+0143", "U+0145", "U+0147", "U+014A",
       "U+014C", "U+014E", "U+0150", "U+0152", "U+0154", "U+0156", "U+0158", "U+015A",
       "U+015C", "U+015E", "U+0160", "U+0162", "U+0164", "U+0166", "U+0168", "U+016A",
       "U+016C", "U+016E", "U+0170", "U+0172", "U+0174", "U+0176", "U+0178", "U+0179",
       "U+017B", "U+017D", "Ɓ", "Ƃ", "Ƅ", "Ɔ", "Ƈ", "Ɖ", "Ɗ", "Ƌ", "Ǝ", "Ə", "Ɛ", "Ƒ",
       "Ɠ", "Ɣ", "Ɩ", "Ɨ", "Ƙ", "Ɯ", "Ɲ", "Ɵ", "Ơ", "Ƣ", "Ƥ", "Ʀ", "Ƨ", "Ʃ", "Ƭ", "Ʈ",
       "Ư", "Ʊ", "Ʋ", "Ƴ", "Ƶ", "Ʒ", "Ƹ", "Ƽ", "Ǆ", "ǅ", "Ǉ", "ǈ", "Ǌ", "ǋ", "Ǎ", "Ǐ",
       "Ǒ", "Ǔ", "Ǖ", "Ǘ", "Ǚ", "Ǜ", "Ǟ", "Ǡ", "Ǣ", "Ǥ", "Ǧ", "Ǩ", "Ǫ", "Ǭ", "Ǯ", "Ǳ",
       "ǲ", "Ǵ", "Ƕ", "Ƿ", "Ǹ", "Ǻ", "Ǽ", "Ǿ", "U+0200", "U+0202", "U+0204", "U+0206",
       "U+0208", "U+020A", "U+020C", "U+020E", "U+0210", "U+0212", "U+0214", "U+0216",
       "U+0218", "U+021A", "U+021C", "U+021E", "U+0220", "U+0222", "U+0224", "U+0226",
       "U+0228", "U+022A", "U+022C", "U+022E", "U+0230", "U+0232", "U+023A", "U+023B",
       "U+023D", "U+023E", "U+0241", "U+0243", "U+0244", "U+0245", "U+0246", "U+0248",
       "U+024A", "U+024C", "U+024E", "U+0370", "U+0372", "U+0376", "U+037F", "Ά", "Έ",
       "Ή", "Ί", "Ό", "Ύ", "Ώ", "Α", "Β", "Γ", "Δ", "Ε", "Ζ", "Η", "Θ", "Ι", "Κ", "Λ",
       "Μ", "Ν", "Ξ", "Ο", "Π", "Ρ", "Σ", "Τ", "Υ", "Φ", "Χ", "Ψ", "Ω", "Ϊ", "Ϋ", "Ϗ",
       "Ϙ", "Ϛ", "Ϝ", "Ϟ", "Ϡ", "Ϣ", "Ϥ", "Ϧ", "Ϩ", "Ϫ", "Ϭ", "Ϯ", "ϴ", "Ϸ", "Ϲ", "Ϻ",
       "Ͻ", "Ͼ", "Ͽ", "U+0400", "U+0401", "U+0402", "U+0403", "U+0404", "U+0405",
       "U+0406", "U+0407", "U+0408", "U+0409", "U+040A", "U+040B", "U+040C", "U+040D",
       "U+040E", "U+040F", "U+0410", "U+0411", "U+0412", "U+0413", "U+0414", "U+0415",
       "U+0416", "U+0417", "U+0418", "U+0419", "U+041A", "U+041B", "U+041C", "U+041D",
       "U+041E", "U+041F", "U+0420", "U+0421", "U+0422", "U+0423", "U+0424", "U+0425",
       "U+0426", "U+0427", "U+0428", "U+0429", "U+042A", "U+042B", "U+042C", "U+042D",
       "U+042E", "U+042F", "U+0460", "U+0462", "U+0464", "U+0466", "U+0468", "U+046A",
       "U+046C", "U+046E", "U+0470", "U+0472", "U+0474", "U+0476", "U+0478", "U+047A",
       "U+047C", "U+047E", "Ҁ", "Ҋ", "Ҍ", "Ҏ", "Ґ", "Ғ", "Ҕ", "Җ", "Ҙ", "Қ", "Ҝ", "Ҟ",
       "Ҡ", "Ң", "Ҥ", "Ҧ", "Ҩ", "Ҫ", "Ҭ", "Ү", "Ұ", "Ҳ", "Ҵ", "Ҷ", "Ҹ", "Һ", "Ҽ", "Ҿ",
       "Ӏ", "Ӂ", "Ӄ", "Ӆ", "Ӈ", "Ӊ", "Ӌ", "Ӎ", "Ӑ", "Ӓ", "Ӕ", "Ӗ", "Ә", "Ӛ", "Ӝ", "Ӟ",
       "Ӡ", "Ӣ", "Ӥ", "Ӧ", "Ө", "Ӫ", "Ӭ", "Ӯ", "Ӱ", "Ӳ", "Ӵ", "Ӷ", "Ӹ", "Ӻ", "Ӽ", "Ӿ",
       "U+0500", "U+0502", "U+0504", "U+0506", "U+0508", "U+050A", "U+050C", "U+050E",
       "U+0510", "U+0512", "U+0514", "U+0516", "U+0518", "U+051A", "U+051C", "U+051E",
       "U+0520", "U+0522", "U+0524", "U+0526", "U+0528", "U+052A", "U+052C", "U+052E",
       "U+0531", "U+0532", "U+0533", "U+0534", "U+0535", "U+0536", "U+0537", "U+0538",
       "U+0539", "U+053A", "U+053B", "U+053C", "U+053D", "U+053E", "U+053F", "U+0540",
       "U+0541", "U+0542", "U+0543", "U+0544", "U+0545", "U+0546", "U+0547", "U+0548",
       "U+0549", "U+054A", "U+054B", "U+054C", "U+054D", "U+054E", "U+054F", "U+0550",
       "U+0551", "U+0552", "U+0553", "U+0554", "U+0555", "U+0556", "Ⴀ", "Ⴁ", "Ⴂ", "Ⴃ",
       "Ⴄ", "Ⴅ", "Ⴆ", "Ⴇ", "Ⴈ", "Ⴉ", "Ⴊ", "Ⴋ", "Ⴌ", "Ⴍ", "Ⴎ", "Ⴏ", "Ⴐ", "Ⴑ", "Ⴒ", "Ⴓ",
       "Ⴔ", "Ⴕ", "Ⴖ", "Ⴗ", "Ⴘ", "Ⴙ", "Ⴚ", "Ⴛ", "Ⴜ", "Ⴝ", "Ⴞ", "Ⴟ", "Ⴠ", "Ⴡ", "Ⴢ", "Ⴣ",
       "Ⴤ", "Ⴥ", "Ⴧ", "Ⴭ", "Ꭰ", "Ꭱ", "Ꭲ", "Ꭳ", "Ꭴ", "Ꭵ", "Ꭶ", "Ꭷ", "Ꭸ", "Ꭹ", "Ꭺ", "Ꭻ",
       "Ꭼ", "Ꭽ", "Ꭾ", "Ꭿ", "Ꮀ", "Ꮁ", "Ꮂ", "Ꮃ", "Ꮄ", "Ꮅ", "Ꮆ", "Ꮇ", "Ꮈ", "Ꮉ", "Ꮊ", "Ꮋ",
       "Ꮌ", "Ꮍ", "Ꮎ", "Ꮏ", "Ꮐ", "Ꮑ", "Ꮒ", "Ꮓ", "Ꮔ", "Ꮕ", "Ꮖ", "Ꮗ", "Ꮘ", "Ꮙ", "Ꮚ", "Ꮛ",
       "Ꮜ", "Ꮝ", "Ꮞ", "Ꮟ", "Ꮠ", "Ꮡ", "Ꮢ", "Ꮣ", "Ꮤ", "Ꮥ", "Ꮦ", "Ꮧ", "Ꮨ", "Ꮩ", "Ꮪ", "Ꮫ",
       "Ꮬ", "Ꮭ", "Ꮮ", "Ꮯ", "Ꮰ", "Ꮱ", "Ꮲ", "Ꮳ", "Ꮴ", "Ꮵ", "Ꮶ", "Ꮷ", "Ꮸ", "Ꮹ", "Ꮺ", "Ꮻ",
       "Ꮼ", "Ꮽ", "Ꮾ", "Ꮿ", "Ᏸ", "Ᏹ", "Ᏺ", "Ᏻ", "Ᏼ", "Ᏽ", "Ᲊ", "Ა", "Ბ", "Გ", "Დ", "Ე",
       "Ვ", "Ზ", "Თ", "Ი", "Კ", "Ლ", "Მ", "Ნ", "Ო", "Პ", "Ჟ", "Რ", "Ს", "Ტ", "Უ", "Ფ",
       "Ქ", "Ღ", "Ყ", "Შ", "Ჩ", "Ც", "Ძ", "Წ", "Ჭ", "Ხ", "Ჯ", "Ჰ", "Ჱ", "Ჲ", "Ჳ", "Ჴ",
       "Ჵ", "Ჶ", "Ჷ", "Ჸ", "Ჹ", "Ჺ", "Ჽ", "Ჾ", "Ჿ", "U+1E00", "U+1E02", "U+1E04",
       "U+1E06", "U+1E08", "U+1E0A", "U+1E0C", "U+1E0E", "U+1E10", "U+1E12", "U+1E14",
       "U+1E16", "U+1E18", "U+1E1A", "U+1E1C", "U+1E1E", "U+1E20", "U+1E22", "U+1E24",
       "U+1E26", "U+1E28", "U+1E2A", "U+1E2C", "U+1E2E", "U+1E30", "U+1E32", "U+1E34",
       "U+1E36", "U+1E38", "U+1E3A", "U+1E3C", "U+1E3E", "U+1E40", "U+1E42", "U+1E44",
       "U+1E46", "U+1E48", "U+1E4A", "U+1E4C", "U+1E4E", "U+1E50", "U+1E52", "U+1E54",
       "U+1E56", "U+1E58", "U+1E5A", "U+1E5C", "U+1E5E", "U+1E60", "U+1E62", "U+1E64",
       "U+1E66", "U+1E68", "U+1E6A", "U+1E6C", "U+1E6E", "U+1E70", "U+1E72", "U+1E74",
       "U+1E76", "U+1E78", "U+1E7A", "U+1E7C", "U+1E7E", "Ẁ", "Ẃ", "Ẅ", "Ẇ", "Ẉ", "Ẋ",
       "Ẍ", "Ẏ", "Ẑ", "Ẓ", "Ẕ", "ẞ", "Ạ", "Ả", "Ấ", "Ầ", "Ẩ", "Ẫ", "Ậ", "Ắ", "Ằ", "Ẳ",
       "Ẵ", "Ặ", "Ẹ", "Ẻ", "Ẽ", "Ế", "Ề", "Ể", "Ễ", "Ệ", "Ỉ", "Ị", "Ọ", "Ỏ", "Ố", "Ồ",
       "Ổ", "Ỗ", "Ộ", "Ớ", "Ờ", "Ở", "Ỡ", "Ợ", "Ụ", "Ủ", "Ứ", "Ừ", "Ử", "Ữ", "Ự", "Ỳ",
       "Ỵ", "Ỷ", "Ỹ", "Ỻ", "Ỽ", "Ỿ", "U+1F08", "U+1F09", "U+1F0A", "U+1F0B", "U+1F0C",
       "U+1F0D", "U+1F0E", "U+1F0F", "U+1F18", "U+1F19", "U+1F1A", "U+1F1B", "U+1F1C",
       "U+1F1D", "U+1F28", "U+1F29", "U+1F2A", "U+1F2B", "U+1F2C", "U+1F2D", "U+1F2E",
       "U+1F2F", "U+1F38", "U+1F39", "U+1F3A", "U+1F3B", "U+1F3C", "U+1F3D", "U+1F3E",
       "U+1F3F", "U+1F48", "U+1F49", "U+1F4A", "U+1F4B", "U+1F4C", "U+1F4D", "U+1F59",
       "U+1F5B", "U+1F5D", "U+1F5F", "U+1F68", "U+1F69", "U+1F6A", "U+1F6B", "U+1F6C",
       "U+1F6D", "U+1F6E", "U+1F6F", "ᾈ", "ᾉ", "ᾊ", "ᾋ", "ᾌ", "ᾍ", "ᾎ", "ᾏ", "ᾘ", "ᾙ",
       "ᾚ", "ᾛ", "ᾜ", "ᾝ", "ᾞ", "ᾟ", "ᾨ", "ᾩ", "ᾪ", "ᾫ", "ᾬ", "ᾭ", "ᾮ", "ᾯ", "Ᾰ", "Ᾱ",
       "Ὰ", "Ά", "ᾼ", "Ὲ", "Έ", "Ὴ", "Ή", "ῌ", "Ῐ", "Ῑ", "Ὶ", "Ί", "Ῠ", "Ῡ", "Ὺ", "Ύ",
       "Ῥ", "Ὸ", "Ό", "Ὼ", "Ώ", "ῼ", "U+2126", "U+212A", "U+212B", "U+2132", "U+2160",
       "U+2161", "U+2162", "U+2163", "U+2164", "U+2165", "U+2166", "U+2167", "U+2168",
       "U+2169", "U+216A", "U+216B", "U+216C", "U+216D", "U+216E", "U+216F", "Ↄ", "Ⓐ",
       "Ⓑ", "Ⓒ", "Ⓓ", "Ⓔ", "Ⓕ", "Ⓖ", "Ⓗ", "Ⓘ", "Ⓙ", "Ⓚ", "Ⓛ", "Ⓜ", "Ⓝ", "Ⓞ", "Ⓟ", "Ⓠ",
       "Ⓡ", "Ⓢ", "Ⓣ", "Ⓤ", "Ⓥ", "Ⓦ", "Ⓧ", "Ⓨ", "Ⓩ", "U+2C00", "U+2C01", "U+2C02",
       "U+2C03", "U+2C04", "U+2C05", "U+2C06", "U+2C07", "U+2C08", "U+2C09", "U+2C0A",
       "U+2C0B", "U+2C0C", "U+2C0D", "U+2C0E", "U+2C0F", "U+2C10", "U+2C11", "U+2C12",
       "U+2C13", "U+2C14", "U+2C15", "U+2C16", "U+2C17", "U+2C18", "U+2C19", "U+2C1A",
       "U+2C1B", "U+2C1C", "U+2C1D", "U+2C1E", "U+2C1F", "U+2C20", "U+2C21", "U+2C22",
       "U+2C23", "U+2C24", "U+2C25", "U+2C26", "U+2C27", "U+2C28", "U+2C29", "U+2C2A",
       "U+2C2B", "U+2C2C", "U+2C2D", "U+2C2E", "U+2C2F", "U+2C60", "U+2C62", "U+2C63",
       "U+2C64", "U+2C67", "U+2C69", "U+2C6B", "U+2C6D", "U+2C6E", "U+2C6F", "U+2C70",
       "U+2C72", "U+2C75", "U+2C7E", "U+2C7F", "Ⲁ", "Ⲃ", "Ⲅ", "Ⲇ", "Ⲉ", "Ⲋ", "Ⲍ", "Ⲏ",
       "Ⲑ", "Ⲓ", "Ⲕ", "Ⲗ", "Ⲙ", "Ⲛ", "Ⲝ", "Ⲟ", "Ⲡ", "Ⲣ", "Ⲥ", "Ⲧ", "Ⲩ", "Ⲫ", "Ⲭ", "Ⲯ",
       "Ⲱ", "Ⲳ", "Ⲵ", "Ⲷ", "Ⲹ", "Ⲻ", "Ⲽ", "Ⲿ", "Ⳁ", "Ⳃ", "Ⳅ", "Ⳇ", "Ⳉ", "Ⳋ", "Ⳍ", "Ⳏ",
       "Ⳑ", "Ⳓ", "Ⳕ", "Ⳗ", "Ⳙ", "Ⳛ", "Ⳝ", "Ⳟ", "Ⳡ", "Ⳣ", "Ⳬ", "Ⳮ", "Ⳳ", "U+A640",
       "U+A642", "U+A644", "U+A646", "U+A648", "U+A64A", "U+A64C", "U+A64E", "U+A650",
       "U+A652", "U+A654", "U+A656", "U+A658", "U+A65A", "U+A65C", "U+A65E", "U+A660",
       "U+A662", "U+A664", "U+A666", "U+A668", "U+A66A", "U+A66C", "Ꚁ", "Ꚃ", "Ꚅ", "Ꚇ",
       "Ꚉ", "Ꚋ", "Ꚍ", "Ꚏ", "Ꚑ", "Ꚓ", "Ꚕ", "Ꚗ", "Ꚙ", "Ꚛ", "U+A722", "U+A724", "U+A726",
       "U+A728", "U+A72A", "U+A72C", "U+A72E", "U+A732", "U+A734", "U+A736", "U+A738",
       "U+A73A", "U+A73C", "U+A73E", "U+A740", "U+A742", "U+A744", "U+A746", "U+A748",
       "U+A74A", "U+A74C", "U+A74E", "U+A750", "U+A752", "U+A754", "U+A756", "U+A758",
       "U+A75A", "U+A75C", "U+A75E", "U+A760", "U+A762", "U+A764", "U+A766", "U+A768",
       "U+A76A", "U+A76C", "U+A76E", "U+A779", "U+A77B", "U+A77D", "U+A77E", "Ꞁ", "Ꞃ",
       "Ꞅ", "Ꞇ", "Ꞌ", "Ɥ", "Ꞑ", "Ꞓ", "Ꞗ", "Ꞙ", "Ꞛ", "Ꞝ", "Ꞟ", "Ꞡ", "Ꞣ", "Ꞥ", "Ꞧ", "Ꞩ",
       "Ɦ", "Ɜ", "Ɡ", "Ɬ", "Ɪ", "Ʞ", "Ʇ", "Ʝ", "Ꭓ", "Ꞵ", "Ꞷ", "Ꞹ", "Ꞻ", "Ꞽ", "Ꞿ", "Ꟁ",
       "Ꟃ", "Ꞔ", "Ʂ", "Ᶎ", "Ꟈ", "Ꟊ", "Ɤ", "Ꟍ", "꟎", "Ꟑ", "꟒", "꟔", "Ꟗ", "Ꟙ", "Ꟛ", "Ƛ",
       "Ꟶ", "U+FF21", "U+FF22", "U+FF23", "U+FF24", "U+FF25", "U+FF26", "U+FF27",
       "U+FF28", "U+FF29", "U+FF2A", "U+FF2B", "U+FF2C", "U+FF2D", "U+FF2E", "U+FF2F",
       "U+FF30", "U+FF31", "U+FF32", "U+FF33", "U+FF34", "U+FF35", "U+FF36", "U+FF37",
       "U+FF38", "U+FF39", "U+FF3A" >>

LowerCase ==
    << "a", "b", "c", "d", "e", "f", "g", "h", "i", "j", "k", "l", "m", "n", "o", "p",
       "q", "r", "s", "t", "u", "v", "w", "x", "y", "z", "à", "á", "â", "ã", "ä", "å",
       "æ", "ç", "è", "é", "ê", "ë", "ì", "í", "î", "ï", "ð", "ñ", "ò", "ó", "ô", "õ",
       "ö", "ø", "ù", "ú", "û", "ü", "ý", "þ", "U+0101", "U+0103", "U+0105", "U+0107",
       "U+0109", "U+010B", "U+010D", "U+010F", "U+0111", "U+0113", "U+0115", "U+0117",
       "U+0119", "U+011B", "U+011D", "U+011F", "U+0121", "U+0123", "U+0125", "U+0127",
       "U+0129", "U+012B", "U+012D", "U+012F", "U+0133", "U+0135", "U+0137", "U+013A",
       "U+013C", "U+013E", "U+0140", "U+0142", "U+0144", "U+0146", "U+0148", "U+014B",
       "U+014D", "U+014F", "U+0151", "U+0153", "U+0155", "U+0157", "U+0159", "U+015B",
       "U+015D", "U+015F", "U+0161", "U+0163", "U+0165", "U+0167", "U+0169", "U+016B",
       "U+016D", "U+016F", "U+0171", "U+0173", "U+0175", "U+0177", "ÿ", "U+017A",
       "U+017C", "U+017E", "U+0253", "ƃ", "ƅ", "U+0254", "ƈ", "U+0256", "U+0257", "ƌ",
       "ǝ", "U+0259", "U+025B", "ƒ", "U+0260", "U+0263", "U+0269", "U+0268", "ƙ",
       "U+026F", "U+0272", "U+0275", "ơ", "ƣ", "ƥ", "ʀ", "ƨ", "ʃ", "ƭ", "ʈ", "ư", "ʊ",
       "ʋ", "ƴ", "ƶ", "ʒ", "ƹ", "ƽ", "ǆ", "ǆ", "ǉ", "ǉ", "ǌ", "ǌ", "ǎ", "ǐ", "ǒ", "ǔ",
       "ǖ", "ǘ", "ǚ", "ǜ", "ǟ", "ǡ", "ǣ", "ǥ", "ǧ", "ǩ", "ǫ", "ǭ", "ǯ", "ǳ", "ǳ", "ǵ",
       "ƕ", "ƿ", "ǹ", "ǻ", "ǽ", "ǿ", "U+0201", "U+0203", "U+0205", "U+0207", "U+0209",
       "U+020B", "U+020D", "U+020F", "U+0211", "U+0213", "U+0215", "U+0217", "U+0219",
       "U+021B", "U+021D", "U+021F", "ƞ", "U+0223", "U+0225", "U+0227", "U+0229",
       "U+022B", "U+022D", "U+022F", "U+0231", "U+0233", "U+2C65", "U+023C", "ƚ",
       "U+2C66", "U+0242", "ƀ", "ʉ", "ʌ", "U+0247", "U+0249", "U+024B", "U+024D",
       "U+024F", "U+0371", "U+0373", "U+0377", "ϳ", "ά", "έ", "ή", "ί", "ό", "ύ", "ώ",
       "α", "β", "γ", "δ", "ε", "ζ", "η", "θ", "ι", "κ", "λ", "μ", "ν", "ξ", "ο", "π",
       "ρ", "σ", "τ", "υ", "φ", "χ", "ψ", "ω", "ϊ", "ϋ", "ϗ", "ϙ", "ϛ", "ϝ", "ϟ", "ϡ",
       "ϣ", "ϥ", "ϧ", "ϩ", "ϫ", "ϭ", "ϯ", "θ", "ϸ", "ϲ", "ϻ", "U+037B", "U+037C",
       "U+037D", "U+0450", "U+0451", "U+0452", "U+0453", "U+0454", "U+0455", "U+0456",
       "U+0457", "U+0458", "U+0459", "U+045A", "U+045B", "U+045C", "U+045D", "U+045E",
       "U+045F", "U+0430", "U+0431", "U+0432", "U+0433", "U+0434", "U+0435", "U+0436",
       "U+0437", "U+0438", "U+0439", "U+043A", "U+043B", "U+043C", "U+043D", "U+043E",
       "U+043F", "U+0440", "U+0441", "U+0442", "U+0443", "U+0444", "U+0445", "U+0446",
       "U+0447", "U+0448", "U+0449", "U+044A", "U+044B", "U+044C", "U+044D", "U+044E",
       "U+044F", "U+0461", "U+0463", "U+0465", "U+0467", "U+0469", "U+046B", "U+046D",
       "U+046F", "U+0471", "U+0473", "U+0475", "U+0477", "U+0479", "U+047B", "U+047D",
       "U+047F", "ҁ", "ҋ", "ҍ", "ҏ", "ґ", "ғ", "ҕ", "җ", "ҙ", "қ", "ҝ", "ҟ", "ҡ", "ң",
       "ҥ", "ҧ", "ҩ", "ҫ", "ҭ", "ү", "ұ", "ҳ", "ҵ", "ҷ", "ҹ", "һ", "ҽ", "ҿ", "ӏ", "ӂ",
       "ӄ", "ӆ", "ӈ", "ӊ", "ӌ", "ӎ", "ӑ", "ӓ", "ӕ", "ӗ", "ә", "ӛ", "ӝ", "ӟ", "ӡ", "ӣ",
       "ӥ", "ӧ", "ө", "ӫ", "ӭ", "ӯ", "ӱ", "ӳ", "ӵ", "ӷ", "ӹ", "ӻ", "ӽ", "ӿ", "U+0501",
       "U+0503", "U+0505", "U+0507", "U+0509", "U+050B", "U+050D", "U+050F", "U+0511",
       "U+0513", "U+0515", "U+0517", "U+0519", "U+051B", "U+051D", "U+051F", "U+0521",
       "U+0523", "U+0525", "U+0527", "U+0529", "U+052B", "U+052D", "U+052F", "U+0561",
       "U+0562", "U+0563", "U+0564", "U+0565", "U+0566", "U+0567", "U+0568", "U+0569",
       "U+056A", "U+056B", "U+056C", "U+056D", "U+056E", "U+056F", "U+0570", "U+0571",
       "U+0572", "U+0573", "U+0574", "U+0575", "U+0576", "U+0577", "U+0578", "U+0579",
       "U+057A", "U+057B", "U+057C", "U+057D", "U+057E", "U+057F", "ր", "ց", "ւ", "փ",
       "ք", "օ", "ֆ", "U+2D00", "U+2D01", "U+2D02", "U+2D03", "U+2D04", "U+2D05",
       "U+2D06", "U+2D07", "U+2D08", "U+2D09", "U+2D0A", "U+2D0B", "U+2D0C", "U+2D0D",
       "U+2D0E", "U+2D0F", "U+2D10", "U+2D11", "U+2D12", "U+2D13", "U+2D14", "U+2D15",
       "U+2D16", "U+2D17", "U+2D18", "U+2D19", "U+2D1A", "U+2D1B", "U+2D1C", "U+2D1D",
       "U+2D1E", "U+2D1F", "U+2D20", "U+2D21", "U+2D22", "U+2D23", "U+2D24", "U+2D25",
       "U+2D27", "U+2D2D", "U+AB70", "U+AB71", "U+AB72", "U+AB73", "U+AB74", "U+AB75",
       "U+AB76", "U+AB77", "U+AB78", "U+AB79", "U+AB7A", "U+AB7B", "U+AB7C", "U+AB7D",
       "U+AB7E", "U+AB7F", "ꮀ", "ꮁ", "ꮂ", "ꮃ", "ꮄ", "ꮅ", "ꮆ", "ꮇ", "ꮈ", "ꮉ", "ꮊ", "ꮋ",
       "ꮌ", "ꮍ", "ꮎ", "ꮏ", "ꮐ", "ꮑ", "ꮒ", "ꮓ", "ꮔ", "ꮕ", "ꮖ", "ꮗ", "ꮘ", "ꮙ", "ꮚ", "ꮛ",
       "ꮜ", "ꮝ", "ꮞ", "ꮟ", "ꮠ", "ꮡ", "ꮢ", "ꮣ", "ꮤ", "ꮥ", "ꮦ", "ꮧ", "ꮨ", "ꮩ", "ꮪ", "ꮫ",
       "ꮬ", "ꮭ", "ꮮ", "ꮯ", "ꮰ", "ꮱ", "ꮲ", "ꮳ", "ꮴ", "ꮵ", "ꮶ", "ꮷ", "ꮸ", "ꮹ", "ꮺ", "ꮻ",
       "ꮼ", "ꮽ", "ꮾ", "ꮿ", "ᏸ", "ᏹ", "ᏺ", "ᏻ", "ᏼ", "ᏽ", "ᲊ", "ა", "ბ", "გ", "დ", "ე",
       "ვ", "ზ", "თ", "ი", "კ", "ლ", "მ", "ნ", "ო", "პ", "ჟ", "რ", "ს", "ტ", "უ", "ფ",
       "ქ", "ღ", "ყ", "შ", "ჩ", "ც", "ძ", "წ", "ჭ", "ხ", "ჯ", "ჰ", "ჱ", "ჲ", "ჳ", "ჴ",
       "ჵ", "ჶ", "ჷ", "ჸ", "ჹ", "ჺ", "ჽ", "ჾ", "ჿ", "U+1E01", "U+1E03", "U+1E05",
       "U+1E07", "U+1E09", "U+1E0B", "U+1E0D", "U+1E0F", "U+1E11", "U+1E13", "U+1E15",
       "U+1E17", "U+1E19", "U+1E1B", "U+1E1D", "U+1E1F", "U+1E21", "U+1E23", "U+1E25",
       "U+1E27", "U+1E29", "U+1E2B", "U+1E2D", "U+1E2F", "U+1E31", "U+1E33", "U+1E35",
       "U+1E37", "U+1E39", "U+1E3B", "U+1E3D", "U+1E3F", "U+1E41", "U+1E43", "U+1E45",
       "U+1E47", "U+1E49", "U+1E4B", "U+1E4D", "U+1E4F", "U+1E51", "U+1E53", "U+1E55",
       "U+1E57", "U+1E59", "U+1E5B", "U+1E5D", "U+1E5F", "U+1E61", "U+1E63", "U+1E65",
       "U+1E67", "U+1E69", "U+1E6B", "U+1E6D", "U+1E6F", "U+1E71", "U+1E73", "U+1E75",
       "U+1E77", "U+1E79", "U+1E7B", "U+1E7D", "U+1E7F", "ẁ", "ẃ", "ẅ", "ẇ", "ẉ", "ẋ",
       "ẍ", "ẏ", "ẑ", "ẓ", "ẕ", "ß", "ạ", "ả", "ấ", "ầ", "ẩ", "ẫ", "ậ", "ắ", "ằ", "ẳ",
       "ẵ", "ặ", "ẹ", "ẻ", "ẽ", "ế", "ề", "ể", "ễ", "ệ", "ỉ", "ị", "ọ", "ỏ", "ố", "ồ",
       "ổ", "ỗ", "ộ", "ớ", "ờ", "ở", "ỡ", "ợ", "ụ", "ủ", "ứ", "ừ", "ử", "ữ", "ự", "ỳ",
       "ỵ", "ỷ", "ỹ", "ỻ", "ỽ", "ỿ", "U+1F00", "U+1F01", "U+1F02", "U+1F03", "U+1F04",
       "U+1F05", "U+1F06", "U+1F07", "U+1F10", "U+1F11", "U+1F12", "U+1F13", "U+1F14",
       "U+1F15", "U+1F20", "U+1F21", "U+1F22", "U+1F23", "U+1F24", "U+1F25", "U+1F26",
       "U+1F27", "U+1F30", "U+1F31", "U+1F32", "U+1F33", "U+1F34", "U+1F35", "U+1F36",
       "U+1F37", "U+1F40", "U+1F41", "U+1F42", "U+1F43", "U+1F44", "U+1F45", "U+1F51",
       "U+1F53", "U+1F55", "U+1F57", "U+1F60", "U+1F61", "U+1F62", "U+1F63", "U+1F64",
       "U+1F65", "U+1F66", "U+1F67", "ᾀ", "ᾁ", "ᾂ", "ᾃ", "ᾄ", "ᾅ", "ᾆ", "ᾇ", "ᾐ", "ᾑ",
       "ᾒ", "ᾓ", "ᾔ", "ᾕ", "ᾖ", "ᾗ", "ᾠ", "ᾡ", "ᾢ", "ᾣ", "ᾤ", "ᾥ", "ᾦ", "ᾧ", "ᾰ", "ᾱ",
       "U+1F70", "U+1F71", "ᾳ", "U+1F72", "U+1F73", "U+1F74", "U+1F75", "ῃ", "ῐ", "ῑ",
       "U+1F76", "U+1F77", "ῠ", "ῡ", "U+1F7A", "U+1F7B", "ῥ", "U+1F78", "U+1F79",
       "U+1F7C", "U+1F7D", "ῳ", "ω", "k", "å", "U+214E", "U+2170", "U+2171", "U+2172",
       "U+2173", "U+2174", "U+2175", "U+2176", "U+2177", "U+2178", "U+2179", "U+217A",
       "U+217B", "U+217C", "U+217D", "U+217E", "U+217F", "ↄ", "ⓐ", "ⓑ", "ⓒ", "ⓓ", "ⓔ",
       "ⓕ", "ⓖ", "ⓗ", "ⓘ", "ⓙ", "ⓚ", "ⓛ", "ⓜ", "ⓝ", "ⓞ", "ⓟ", "ⓠ", "ⓡ", "ⓢ", "ⓣ", "ⓤ",
       "ⓥ", "ⓦ", "ⓧ", "ⓨ", "ⓩ", "U+2C30", "U+2C31", "U+2C32", "U+2C33", "U+2C34",
       "U+2C35", "U+2C36", "U+2C37", "U+2C38", "U+2C39", "U+2C3A", "U+2C3B", "U+2C3C",
       "U+2C3D", "U+2C3E", "U+2C3F", "U+2C40", "U+2C41", "U+2C42", "U+2C43", "U+2C44",
       "U+2C45", "U+2C46", "U+2C47", "U+2C48", "U+2C49", "U+2C4A", "U+2C4B", "U+2C4C",
       "U+2C4D", "U+2C4E", "U+2C4F", "U+2C50", "U+2C51", "U+2C52", "U+2C53", "U+2C54",
       "U+2C55", "U+2C56", "U+2C57", "U+2C58", "U+2C59", "U+2C5A", "U+2C5B", "U+2C5C",
       "U+2C5D", "U+2C5E", "U+2C5F", "U+2C61", "U+026B", "U+1D7D", "U+027D", "U+2C68",
       "U+2C6A", "U+2C6C", "U+0251", "U+0271", "U+0250", "U+0252", "U+2C73", "U+2C76",
       "U+023F", "U+0240", "ⲁ", "ⲃ", "ⲅ", "ⲇ", "ⲉ", "ⲋ", "ⲍ", "ⲏ", "ⲑ", "ⲓ", "ⲕ", "ⲗ",
       "ⲙ", "ⲛ", "ⲝ", "ⲟ", "ⲡ", "ⲣ", "ⲥ", "ⲧ", "ⲩ", "ⲫ", "ⲭ", "ⲯ", "ⲱ", "ⲳ", "ⲵ", "ⲷ",
       "ⲹ", "ⲻ", "ⲽ", "ⲿ", "ⳁ", "ⳃ", "ⳅ", "ⳇ", "ⳉ", "ⳋ", "ⳍ", "ⳏ", "ⳑ", "ⳓ", "ⳕ", "ⳗ",
       "ⳙ", "ⳛ", "ⳝ", "ⳟ", "ⳡ", "ⳣ", "ⳬ", "ⳮ", "ⳳ", "U+A641", "U+A643", "U+A645",
       "U+A647", "U+A649", "U+A64B", "U+A64D", "U+A64F", "U+A651", "U+A653", "U+A655",
       "U+A657", "U+A659", "U+A65B", "U+A65D", "U+A65F", "U+A661", "U+A663", "U+A665",
       "U+A667", "U+A669", "U+A66B", "U+A66D", "ꚁ", "ꚃ", "ꚅ", "ꚇ", "ꚉ", "ꚋ", "ꚍ", "ꚏ",
       "ꚑ", "ꚓ", "ꚕ", "ꚗ", "ꚙ", "ꚛ", "U+A723", "U+A725", "U+A727", "U+A729", "U+A72B",
       "U+A72D", "U+A72F", "U+A733", "U+A735", "U+A737", "U+A739", "U+A73B", "U+A73D",
       "U+A73F", "U+A741", "U+A743", "U+A745", "U+A747", "U+A749", "U+A74B", "U+A74D",
       "U+A74F", "U+A751", "U+A753", "U+A755", "U+A757", "U+A759", "U+A75B", "U+A75D",
       "U+A75F", "U+A761", "U+A763", "U+A765", "U+A767", "U+A769", "U+A76B", "U+A76D",
       "U+A76F", "U+A77A", "U+A77C", "U+1D79", "U+A77F", "ꞁ", "ꞃ", "ꞅ", "ꞇ", "ꞌ",
       "U+0265", "ꞑ", "ꞓ", "ꞗ", "ꞙ", "ꞛ", "ꞝ", "ꞟ", "ꞡ", "ꞣ", "ꞥ", "ꞧ", "ꞩ", "U+0266",
       "U+025C", "U+0261", "U+026C", "U+026A", "ʞ", "ʇ", "ʝ", "U+AB53", "ꞵ", "ꞷ", "ꞹ",
       "ꞻ", "ꞽ", "ꞿ", "ꟁ", "ꟃ", "ꞔ", "ʂ", "ᶎ", "ꟈ", "ꟊ", "U+0264", "ꟍ", "꟏", "ꟑ", "ꟓ",
       "ꟕ", "ꟗ", "ꟙ", "ꟛ", "ƛ", "ꟶ", "U+FF41", "U+FF42", "U+FF43", "U+FF44", "U+FF45",
       "U+FF46", "U+FF47", "U+FF48", "U+FF49", "U+FF4A", "U+FF4B", "U+FF4C", "U+FF4D",
       "U+FF4E", "U+FF4F", "U+FF50", "U+FF51", "U+FF52", "U+FF53", "U+FF54", "U+FF55",
       "U+FF56", "U+FF57", "U+FF58", "U+FF59", "U+FF5A" >>

Letters == { UpperCase[n] : n \in DOMAIN UpperCase }

\* the lower-case letter of every such letter
LowerOf ==
    [c \in Letters |-> LowerCase[CHOOSE n \in DOMAIN UpperCase : UpperCase[n] = c]]

\* the letters outside the Basic Multilingual Plane that have a lower-case
\* letter, and their lower-case letters in the same order: by high surrogate,
\* the low surrogates (a letter and its lower-case letter have the same high
\* surrogate)
SupplementaryUpperCase ==
    "U+D801" :>
        << "U+DC00", "U+DC01", "U+DC02", "U+DC03", "U+DC04", "U+DC05", "U+DC06",
           "U+DC07", "U+DC08", "U+DC09", "U+DC0A", "U+DC0B", "U+DC0C", "U+DC0D",
           "U+DC0E", "U+DC0F", "U+DC10", "U+DC11", "U+DC12", "U+DC13", "U+DC14",
           "U+DC15", "U+DC16", "U+DC17", "U+DC18", "U+DC19", "U+DC1A", "U+DC1B",
           "U+DC1C", "U+DC1D", "U+DC1E", "U+DC1F", "U+DC20", "U+DC21", "U+DC22",
           "U+DC23", "U+DC24", "U+DC25", "U+DC26", "U+DC27", "U+DCB0", "U+DCB1",
           "U+DCB2", "U+DCB3", "U+DCB4", "U+DCB5", "U+DCB6", "U+DCB7", "U+DCB8",
           "U+DCB9", "U+DCBA", "U+DCBB", "U+DCBC", "U+DCBD", "U+DCBE", "U+DCBF",
           "U+DCC0", "U+DCC1", "U+DCC2", "U+DCC3", "U+DCC4", "U+DCC5", "U+DCC6",
           "U+DCC7", "U+DCC8", "U+DCC9", "U+DCCA", "U+DCCB", "U+DCCC", "U+DCCD",
           "U+DCCE", "U+DCCF", "U+DCD0", "U+DCD1", "U+DCD2", "U+DCD3", "U+DD70",
           "U+DD71", "U+DD72", "U+DD73", "U+DD74", "U+DD75", "U+DD76", "U+DD77",
           "U+DD78", "U+DD79", "U+DD7A", "U+DD7C", "U+DD7D", "U+DD7E", "U+DD7F",
           "U+DD80", "U+DD81", "U+DD82", "U+DD83", "U+DD84", "U+DD85", "U+DD86",
           "U+DD87", "U+DD88", "U+DD89", "U+DD8A", "U+DD8C", "U+DD8D", "U+DD8E",
           "U+DD8F", "U+DD90", "U+DD91", "U+DD92", "U+DD94", "U+DD95" >> @@
    "U+D803" :>
        << "U+DC80", "U+DC81", "U+DC82", "U+DC83", "U+DC84", "U+DC85", "U+DC86",
           "U+DC87", "U+DC88", "U+DC89", "U+DC8A", "U+DC8B", "U+DC8C", "U+DC8D",
           "U+DC8E", "U+DC8F", "U+DC90", "U+DC91", "U+DC92", "U+DC93", "U+DC94",
           "U+DC95", "U+DC96", "U+DC97", "U+DC98", "U+DC99", "U+DC9A", "U+DC9B",
           "U+DC9C", "U+DC9D", "U+DC9E", "U+DC9F", "U+DCA0", "U+DCA1", "U+DCA2",
           "U+DCA3", "U+DCA4", "U+DCA5", "U+DCA6", "U+DCA7", "U+DCA8", "U+DCA9",
           "U+DCAA", "U+DCAB", "U+DCAC", "U+DCAD", "U+DCAE", "U+DCAF", "U+DCB0",
           "U+DCB1", "U+DCB2", "U+DD50", "U+DD51", "U+DD52", "U+DD53", "U+DD54",
           "U+DD55", "U+DD56", "U+DD57", "U+DD58", "U+DD59", "U+DD5A", "U+DD5B",
           "U+DD5C", "U+DD5D", "U+DD5E", "U+DD5F", "U+DD60", "U+DD61", "U+DD62",
           "U+DD63", "U+DD64", "U+DD65" >> @@
    "U+D806" :>
        << "U+DCA0", "U+DCA1", "U+DCA2", "U+DCA3", "U+DCA4", "U+DCA5", "U+DCA6",
           "U+DCA7", "U+DCA8", "U+DCA9", "U+DCAA", "U+DCAB", "U+DCAC", "U+DCAD",
           "U+DCAE", "U+DCAF", "U+DCB0", "U+DCB1", "U+DCB2", "U+DCB3", "U+DCB4",
           "U+DCB5", "U+DCB6", "U+DCB7", "U+DCB8", "U+DCB9", "U+DCBA", "U+DCBB",
           "U+DCBC", "U+DCBD", "U+DCBE", "U+DCBF" >> @@
    "U+D81B" :>
        << "U+DE40", "U+DE41", "U+DE42", "U+DE43", "U+DE44", "U+DE45", "U+DE46",
           "U+DE47", "U+DE48", "U+DE49", "U+DE4A", "U+DE4B", "U+DE4C", "U+DE4D",
           "U+DE4E", "U+DE4F", "U+DE50", "U+DE51", "U+DE52", "U+DE53", "U+DE54",
           "U+DE55", "U+DE56", "U+DE57", "U+DE58", "U+DE59", "U+DE5A", "U+DE5B",
           "U+DE5C", "U+DE5D", "U+DE5E", "U+DE5F", "U+DEA0", "U+DEA1", "U+DEA2",
           "U+DEA3", "U+DEA4", "U+DEA5", "U+DEA6", "U+DEA7", "U+DEA8", "U+DEA9",
           "U+DEAA", "U+DEAB", "U+DEAC", "U+DEAD", "U+DEAE", "U+DEAF", "U+DEB0",
           "U+DEB1", "U+DEB2", "U+DEB3", "U+DEB4", "U+DEB5", "U+DEB6", "U+DEB7",
           "U+DEB8" >> @@
    "U+D83A" :>
        << "U+DD00", "U+DD01", "U+DD02", "U+DD03", "U+DD04", "U+DD05", "U+DD06",
           "U+DD07", "U+DD08", "U+DD09", "U+DD0A", "U+DD0B", "U+DD0C", "U+DD0D",
           "U+DD0E", "U+DD0F", "U+DD10", "U+DD11", "U+DD12", "U+DD13", "U+DD14",
           "U+DD15", "U+DD16", "U+DD17", "U+DD18", "U+DD19", "U+DD1A", "U+DD1B",
           "U+DD1C", "U+DD1D", "U+DD1E", "U+DD1F", "U+DD20", "U+DD21" >>

SupplementaryLowerCase ==
    "U+D801" :>
        << "U+DC28", "U+DC29", "U+DC2A", "U+DC2B", "U+DC2C", "U+DC2D", "U+DC2E",
           "U+DC2F", "U+DC30", "U+DC31", "U+DC32", "U+DC33", "U+DC34", "U+DC35",
           "U+DC36", "U+DC37", "U+DC38", "U+DC39", "U+DC3A", "U+DC3B", "U+DC3C",
           "U+DC3D", "U+DC3E", "U+DC3F", "U+DC40", "U+DC41", "U+DC42", "U+DC43",
           "U+DC44", "U+DC45", "U+DC46", "U+DC47", "U+DC48", "U+DC49", "U+DC4A",
           "U+DC4B", "U+DC4C", "U+DC4D", "U+DC4E", "U+DC4F", "U+DCD8", "U+DCD9",
           "U+DCDA", "U+DCDB", "U+DCDC", "U+DCDD", "U+DCDE", "U+DCDF", "U+DCE0",
           "U+DCE1", "U+DCE2", "U+DCE3", "U+DCE4", "U+DCE5", "U+DCE6", "U+DCE7",
           "U+DCE8", "U+DCE9", "U+DCEA", "U+DCEB", "U+DCEC", "U+DCED", "U+DCEE",
           "U+DCEF", "U+DCF0", "U+DCF1", "U+DCF2", "U+DCF3", "U+DCF4", "U+DCF5",
           "U+DCF6", "U+DCF7", "U+DCF8", "U+DCF9", "U+DCFA", "U+DCFB", "U+DD97",
           "U+DD98", "U+DD99", "U+DD9A", "U+DD9B", "U+DD9C", "U+DD9D", "U+DD9E",
           "U+DD9F", "U+DDA0", "U+DDA1", "U+DDA3", "U+DDA4", "U+DDA5", "U+DDA6",
           "U+DDA7", "U+DDA8", "U+DDA9", "U+DDAA", "U+DDAB", "U+DDAC", "U+DDAD",
           "U+DDAE", "U+DDAF", "U+DDB0", "U+DDB1", "U+DDB3", "U+DDB4", "U+DDB5",
           "U+DDB6", "U+DDB7", "U+DDB8", "U+DDB9", "U+DDBB", "U+DDBC" >> @@
    "U+D803" :>
        << "U+DCC0", "U+DCC1", "U+DCC2", "U+DCC3", "U+DCC4", "U+DCC5", "U+DCC6",
           "U+DCC7", "U+DCC8", "U+DCC9", "U+DCCA", "U+DCCB", "U+DCCC", "U+DCCD",
           "U+DCCE", "U+DCCF", "U+DCD0", "U+DCD1", "U+DCD2", "U+DCD3", "U+DCD4",
           "U+DCD5", "U+DCD6", "U+DCD7", "U+DCD8", "U+DCD9", "U+DCDA", "U+DCDB",
           "U+DCDC", "U+DCDD", "U+DCDE", "U+DCDF", "U+DCE0", "U+DCE1", "U+DCE2",
           "U+DCE3", "U+DCE4", "U+DCE5", "U+DCE6", "U+DCE7", "U+DCE8", "U+DCE9",
           "U+DCEA", "U+DCEB", "U+DCEC", "U+DCED", "U+DCEE", "U+DCEF", "U+DCF0",
           "U+DCF1", "U+DCF2", "U+DD70", "U+DD71", "U+DD72", "U+DD73", "U+DD74",
           "U+DD75", "U+DD76", "U+DD77", "U+DD78", "U+DD79", "U+DD7A", "U+DD7B",
           "U+DD7C", "U+DD7D", "U+DD7E", "U+DD7F", "U+DD80", "U+DD81", "U+DD82",
           "U+DD83", "U+DD84", "U+DD85" >> @@
    "U+D806" :>
        << "U+DCC0", "U+DCC1", "U+DCC2", "U+DCC3", "U+DCC4", "U+DCC5", "U+DCC6",
           "U+DCC7", "U+DCC8", "U+DCC9", "U+DCCA", "U+DCCB", "U+DCCC", "U+DCCD",
           "U+DCCE", "U+DCCF", "U+DCD0", "U+DCD1", "U+DCD2", "U+DCD3", "U+DCD4",
           "U+DCD5", "U+DCD6", "U+DCD7", "U+DCD8", "U+DCD9", "U+DCDA", "U+DCDB",
           "U+DCDC", "U+DCDD", "U+DCDE", "U+DCDF" >> @@
    "U+D81B" :>
        << "U+DE60", "U+DE61", "U+DE62", "U+DE63", "U+DE64", "U+DE65", "U+DE66",
           "U+DE67", "U+DE68", "U+DE69", "U+DE6A", "U+DE6B", "U+DE6C", "U+DE6D",
           "U+DE6E", "U+DE6F", "U+DE70", "U+DE71", "U+DE72", "U+DE73", "U+DE74",
           "U+DE75", "U+DE76", "U+DE77", "U+DE78", "U+DE79", "U+DE7A", "U+DE7B",
           "U+DE7C", "U+DE7D", "U+DE7E", "U+DE7F", "U+DEBB", "U+DEBC", "U+DEBD",
           "U+DEBE", "U+DEBF", "U+DEC0", "U+DEC1", "U+DEC2", "U+DEC3", "U+DEC4",
           "U+DEC5", "U+DEC6", "U+DEC7", "U+DEC8", "U+DEC9", "U+DECA", "U+DECB",
           "U+DECC", "U+DECD", "U+DECE", "U+DECF", "U+DED0", "U+DED1", "U+DED2",
           "U+DED3" >> @@
    "U+D83A" :>
        << "U+DD22", "U+DD23", "U+DD24", "U+DD25", "U+DD26", "U+DD27", "U+DD28",
           "U+DD29", "U+DD2A", "U+DD2B", "U+DD2C", "U+DD2D", "U+DD2E", "U+DD2F",
           "U+DD30", "U+DD31", "U+DD32", "U+DD33", "U+DD34", "U+DD35", "U+DD36",
           "U+DD37", "U+DD38", "U+DD39", "U+DD3A", "U+DD3B", "U+DD3C", "U+DD3D",
           "U+DD3E", "U+DD3F", "U+DD40", "U+DD41", "U+DD42", "U+DD43" >>

SupplementaryLowerOf ==
    [h \in DOMAIN SupplementaryUpperCase |->
        [c \in { SupplementaryUpperCase[h][n] : n \in DOMAIN SupplementaryUpperCase[h] } |->
            SupplementaryLowerCase[h][CHOOSE n \in DOMAIN SupplementaryUpperCase[h] :
                                         SupplementaryUpperCase[h][n] = c]]]

\* the code units with the property Case_Ignorable
CaseIgnorable ==
    { "'", ".", ":", "^", "U+0060", "¨", "­", "¯", "´", "·", "¸", "ʰ", "ʱ", "ʲ", "ʳ",
      "ʴ", "ʵ", "ʶ", "ʷ", "ʸ", "ʹ", "ʺ", "ʻ", "ʼ", "ʽ", "ʾ", "ʿ", "ˀ", "ˁ", "˂", "˃",
      "˄", "˅", "ˆ", "ˇ", "ˈ", "ˉ", "ˊ", "ˋ", "ˌ", "ˍ", "ˎ", "ˏ", "ː", "ˑ", "˒", "˓",
      "˔", "˕", "˖", "˗", "˘", "˙", "˚", "˛", "˜", "˝", "˞", "˟", "ˠ", "ˡ", "ˢ", "ˣ",
      "ˤ", "˥", "˦", "˧", "˨", "˩", "˪", "˫", "ˬ", "˭", "ˮ", "˯", "˰", "˱", "˲", "˳",
      "˴", "˵", "˶", "˷", "˸", "˹", "˺", "˻", "˼", "˽", "˾", "˿", "U+0300", "U+0301",
      "U+0302", "U+0303", "U+0304", "U+0305", "U+0306", "U+0307", "U+0308", "U+0309",
      "U+030A", "U+030B", "U+030C", "U+030D", "U+030E", "U+030F", "U+0310", "U+0311",
      "U+0312", "U+0313", "U+0314", "U+0315", "U+0316", "U+0317", "U+0318", "U+0319",
      "U+031A", "U+031B", "U+031C", "U+031D", "U+031E", "U+031F", "U+0320", "U+0321",
      "U+0322", "U+0323", "U+0324", "U+0325", "U+0326", "U+0327", "U+0328", "U+0329",
      "U+032A", "U+032B", "U+032C", "U+032D", "U+032E", "U+032F", "U+0330", "U+0331",
      "U+0332", "U+0333", "U+0334", "U+0335", "U+0336", "U+0337", "U+0338", "U+0339",
      "U+033A", "U+033B", "U+033C", "U+033D", "U+033E", "U+033F", "U+0340", "U+0341",
      "U+0342", "U+0343", "U+0344", "U+0345", "U+0346", "U+0347", "U+0348", "U+0349",
      "U+034A", "U+034B", "U+034C", "U+034D", "U+034E", "U+034F", "U+0350", "U+0351",
      "U+0352", "U+0353", "U+0354", "U+0355", "U+0356", "U+0357", "U+0358", "U+0359",
      "U+035A", "U+035B", "U+035C", "U+035D", "U+035E", "U+035F", "U+0360", "U+0361",
      "U+0362", "U+0363", "U+0364", "U+0365", "U+0366", "U+0367", "U+0368", "U+0369",
      "U+036A", "U+036B", "U+036C", "U+036D", "U+036E", "U+036F", "U+0374", "U+0375",
      "U+037A", "΄", "΅", "·", "҃", "҄", "҅", "҆", "҇", "҈", "҉", "U+0559", "U+055F",
      "֑", "֒", "֓", "֔", "֕", "֖", "֗", "֘", "֙", "֚", "֛", "֜", "֝", "֞", "֟", "֠",
      "֡", "֢", "֣", "֤", "֥", "֦", "֧", "֨", "֩", "֪", "֫", "֬", "֭", "֮", "֯", "ְ",
      "ֱ", "ֲ", "ֳ", "ִ", "ֵ", "ֶ", "ַ", "ָ", "ֹ", "ֺ", "ֻ", "ּ", "ֽ", "ֿ", "ׁ", "ׂ",
      "ׄ", "ׅ", "ׇ", "״", "U+0600", "U+0601", "U+0602", "U+0603", "U+0604", "U+0605",
      "U+0610", "U+0611", "U+0612", "U+0613", "U+0614", "U+0615", "U+0616", "U+0617",
      "U+0618", "U+0619", "U+061A", "U+061C", "U+0640", "U+064B", "U+064C", "U+064D",
      "U+064E", "U+064F", "U+0650", "U+0651", "U+0652", "U+0653", "U+0654", "U+0655",
      "U+0656", "U+0657", "U+0658", "U+0659", "U+065A", "U+065B", "U+065C", "U+065D",
      "U+065E", "U+065F", "U+0670", "ۖ", "ۗ", "ۘ", "ۙ", "ۚ", "ۛ", "ۜ", "۝", "۟", "۠",
      "ۡ", "ۢ", "ۣ", "ۤ", "ۥ", "ۦ", "ۧ", "ۨ", "۪", "۫", "۬", "ۭ", "U+070F", "U+0711",
      "U+0730", "U+0731", "U+0732", "U+0733", "U+0734", "U+0735", "U+0736", "U+0737",
      "U+0738", "U+0739", "U+073A", "U+073B", "U+073C", "U+073D", "U+073E", "U+073F",
      "U+0740", "U+0741", "U+0742", "U+0743", "U+0744", "U+0745", "U+0746", "U+0747",
      "U+0748", "U+0749", "U+074A", "ަ", "ާ", "ި", "ީ", "ު", "ޫ", "ެ", "ޭ", "ޮ", "ޯ",
      "ް", "߫", "߬", "߭", "߮", "߯", "߰", "߱", "߲", "߳", "ߴ", "ߵ", "ߺ", "߽", "U+0816",
      "U+0817", "U+0818", "U+0819", "U+081A", "U+081B", "U+081C", "U+081D", "U+081E",
      "U+081F", "U+0820", "U+0821", "U+0822", "U+0823", "U+0824", "U+0825", "U+0826",
      "U+0827", "U+0828", "U+0829", "U+082A", "U+082B", "U+082C", "U+082D", "U+0859",
      "U+085A", "U+085B", "࢈", "࢐", "࢑", "ࢗ", "࢘", "࢙", "࢚", "࢛", "࢜", "࢝", "࢞", "࢟",
      "ࣉ", "࣊", "࣋", "࣌", "࣍", "࣎", "࣏", "࣐", "࣑", "࣒", "࣓", "ࣔ", "ࣕ", "ࣖ", "ࣗ", "ࣘ",
      "ࣙ", "ࣚ", "ࣛ", "ࣜ", "ࣝ", "ࣞ", "ࣟ", "࣠", "࣡", "࣢", "ࣣ", "ࣤ", "ࣥ", "ࣦ", "ࣧ", "ࣨ",
      "ࣩ", "࣪", "࣫", "࣬", "࣭", "࣮", "࣯", "ࣰ", "ࣱ", "ࣲ", "ࣳ", "ࣴ", "ࣵ", "ࣶ", "ࣷ", "ࣸ",
      "ࣹ", "ࣺ", "ࣻ", "ࣼ", "ࣽ", "ࣾ", "ࣿ", "U+0900", "U+0901", "U+0902", "U+093A",
      "U+093C", "U+0941", "U+0942", "U+0943", "U+0944", "U+0945", "U+0946", "U+0947",
      "U+0948", "U+094D", "U+0951", "U+0952", "U+0953", "U+0954", "U+0955", "U+0956",
      "U+0957", "U+0962", "U+0963", "U+0971", "ঁ", "়", "ু", "ূ", "ৃ", "ৄ", "্", "ৢ",
      "ৣ", "৾", "U+0A01", "U+0A02", "U+0A3C", "U+0A41", "U+0A42", "U+0A47", "U+0A48",
      "U+0A4B", "U+0A4C", "U+0A4D", "U+0A51", "U+0A70", "U+0A71", "U+0A75", "ઁ", "ં",
      "઼", "ુ", "ૂ", "ૃ", "ૄ", "ૅ", "ે", "ૈ", "્", "ૢ", "ૣ", "ૺ", "ૻ", "ૼ", "૽", "૾",
      "૿", "U+0B01", "U+0B3C", "U+0B3F", "U+0B41", "U+0B42", "U+0B43", "U+0B44",
      "U+0B4D", "U+0B55", "U+0B56", "U+0B62", "U+0B63", "ஂ", "ீ", "்", "U+0C00",
      "U+0C04", "U+0C3C", "U+0C3E", "U+0C3F", "U+0C40", "U+0C46", "U+0C47", "U+0C48",
      "U+0C4A", "U+0C4B", "U+0C4C", "U+0C4D", "U+0C55", "U+0C56", "U+0C62", "U+0C63",
      "ಁ", "಼", "ಿ", "ೆ", "ೌ", "್", "ೢ", "ೣ", "U+0D00", "U+0D01", "U+0D3B", "U+0D3C",
      "U+0D41", "U+0D42", "U+0D43", "U+0D44", "U+0D4D", "U+0D62", "U+0D63", "ඁ", "්",
      "ි", "ී", "ු", "ූ", "U+0E31", "U+0E34", "U+0E35", "U+0E36", "U+0E37", "U+0E38",
      "U+0E39", "U+0E3A", "U+0E46", "U+0E47", "U+0E48", "U+0E49", "U+0E4A", "U+0E4B",
      "U+0E4C", "U+0E4D", "U+0E4E", "ັ", "ິ", "ີ", "ຶ", "ື", "ຸ", "ູ", "຺", "ົ", "ຼ",
      "ໆ", "່", "້", "໊", "໋", "໌", "ໍ", "໎", "U+0F18", "U+0F19", "U+0F35", "U+0F37",
      "U+0F39", "U+0F71", "U+0F72", "U+0F73", "U+0F74", "U+0F75", "U+0F76", "U+0F77",
      "U+0F78", "U+0F79", "U+0F7A", "U+0F7B", "U+0F7C", "U+0F7D", "U+0F7E", "ྀ", "ཱྀ",
      "ྂ", "ྃ", "྄", "྆", "྇", "ྍ", "ྎ", "ྏ", "ྐ", "ྑ", "ྒ", "ྒྷ", "ྔ", "ྕ", "ྖ", "ྗ",
      "ྙ", "ྚ", "ྛ", "ྜ", "ྜྷ", "ྞ", "ྟ", "ྠ", "ྡ", "ྡྷ", "ྣ", "ྤ", "ྥ", "ྦ", "ྦྷ", "ྨ",
      "ྩ", "ྪ", "ྫ", "ྫྷ", "ྭ", "ྮ", "ྯ", "ྰ", "ྱ", "ྲ", "ླ", "ྴ", "ྵ", "ྶ", "ྷ", "ྸ",
      "ྐྵ", "ྺ", "ྻ", "ྼ", "࿆", "U+102D", "U+102E", "U+102F", "U+1030", "U+1032",
      "U+1033", "U+1034", "U+1035", "U+1036", "U+1037", "U+1039", "U+103A", "U+103D",
      "U+103E", "U+1058", "U+1059", "U+105E", "U+105F", "U+1060", "U+1071", "U+1072",
      "U+1073", "U+1074", "ႂ", "ႅ", "ႆ", "ႍ", "ႝ", "ჼ", "U+135D", "U+135E", "U+135F",
      "U+1712", "U+1713", "U+1714", "U+1732", "U+1733", "U+1752", "U+1753", "U+1772",
      "U+1773", "឴", "឵", "ិ", "ី", "ឹ", "ឺ", "ុ", "ូ", "ួ", "ំ", "៉", "៊", "់", "៌",
      "៍", "៎", "៏", "័", "៑", "្", "៓", "ៗ", "៝", "U+180B", "U+180C", "U+180D",
      "U+180E", "U+180F", "U+1843", "ᢅ", "ᢆ", "ᢩ", "U+1920", "U+1921", "U+1922",
      "U+1927", "U+1928", "U+1932", "U+1939", "U+193A", "U+193B", "U+1A17", "U+1A18",
      "U+1A1B", "U+1A56", "U+1A58", "U+1A59", "U+1A5A", "U+1A5B", "U+1A5C", "U+1A5D",
      "U+1A5E", "U+1A60", "U+1A62", "U+1A65", "U+1A66", "U+1A67", "U+1A68", "U+1A69",
      "U+1A6A", "U+1A6B", "U+1A6C", "U+1A73", "U+1A74", "U+1A75", "U+1A76", "U+1A77",
      "U+1A78", "U+1A79", "U+1A7A", "U+1A7B", "U+1A7C", "U+1A7F", "ᪧ", "᪰", "᪱", "᪲",
      "᪳", "᪴", "᪵", "᪶", "᪷", "᪸", "᪹", "᪺", "᪻", "᪼", "᪽", "᪾", "ᪿ", "ᫀ", "᫁", "᫂",
      "᫃", "᫄", "᫅", "᫆", "᫇", "᫈", "᫉", "᫊", "᫋", "ᫌ", "ᫍ", "ᫎ", "᫏", "᫐", "᫑", "᫒",
      "᫓", "᫔", "᫕", "᫖", "᫗", "᫘", "᫙", "᫚", "᫛", "᫜", "᫝", "᫠", "᫡", "᫢", "᫣", "᫤",
      "᫥", "᫦", "᫧", "᫨", "᫩", "᫪", "᫫", "U+1B00", "U+1B01", "U+1B02", "U+1B03",
      "U+1B34", "U+1B36", "U+1B37", "U+1B38", "U+1B39", "U+1B3A", "U+1B3C", "U+1B42",
      "U+1B6B", "U+1B6C", "U+1B6D", "U+1B6E", "U+1B6F", "U+1B70", "U+1B71", "U+1B72",
      "U+1B73", "ᮀ", "ᮁ", "ᮢ", "ᮣ", "ᮤ", "ᮥ", "ᮨ", "ᮩ", "᮫", "ᮬ", "ᮭ", "᯦", "ᯨ", "ᯩ",
      "ᯭ", "ᯯ", "ᯰ", "ᯱ", "U+1C2C", "U+1C2D", "U+1C2E", "U+1C2F", "U+1C30", "U+1C31",
      "U+1C32", "U+1C33", "U+1C36", "U+1C37", "U+1C78", "U+1C79", "U+1C7A", "U+1C7B",
      "U+1C7C", "U+1C7D", "᳐", "᳑", "᳒", "᳔", "᳕", "᳖", "᳗", "᳘", "᳙", "᳚", "᳛", "᳜",
      "᳝", "᳞", "᳟", "᳠", "᳢", "᳣", "᳤", "᳥", "᳦", "᳧", "᳨", "᳭", "᳴", "᳸", "᳹",
      "U+1D2C", "U+1D2D", "U+1D2E", "U+1D2F", "U+1D30", "U+1D31", "U+1D32", "U+1D33",
      "U+1D34", "U+1D35", "U+1D36", "U+1D37", "U+1D38", "U+1D39", "U+1D3A", "U+1D3B",
      "U+1D3C", "U+1D3D", "U+1D3E", "U+1D3F", "U+1D40", "U+1D41", "U+1D42", "U+1D43",
      "U+1D44", "U+1D45", "U+1D46", "U+1D47", "U+1D48", "U+1D49", "U+1D4A", "U+1D4B",
      "U+1D4C", "U+1D4D", "U+1D4E", "U+1D4F", "U+1D50", "U+1D51", "U+1D52", "U+1D53",
      "U+1D54", "U+1D55", "U+1D56", "U+1D57", "U+1D58", "U+1D59", "U+1D5A", "U+1D5B",
      "U+1D5C", "U+1D5D", "U+1D5E", "U+1D5F", "U+1D60", "U+1D61", "U+1D62", "U+1D63",
      "U+1D64", "U+1D65", "U+1D66", "U+1D67", "U+1D68", "U+1D69", "U+1D6A", "U+1D78",
      "ᶛ", "ᶜ", "ᶝ", "ᶞ", "ᶟ", "ᶠ", "ᶡ", "ᶢ", "ᶣ", "ᶤ", "ᶥ", "ᶦ", "ᶧ", "ᶨ", "ᶩ", "ᶪ",
      "ᶫ", "ᶬ", "ᶭ", "ᶮ", "ᶯ", "ᶰ", "ᶱ", "ᶲ", "ᶳ", "ᶴ", "ᶵ", "ᶶ", "ᶷ", "ᶸ", "ᶹ", "ᶺ",
      "ᶻ", "ᶼ", "ᶽ", "ᶾ", "ᶿ", "᷀", "᷁", "᷂", "᷃", "᷄", "᷅", "᷆", "᷇", "᷈", "᷉", "᷊",
      "᷋", "᷌", "᷍", "᷎", "᷏", "᷐", "᷑", "᷒", "ᷓ", "ᷔ", "ᷕ", "ᷖ", "ᷗ", "ᷘ", "ᷙ", "ᷚ",
      "ᷛ", "ᷜ", "ᷝ", "ᷞ", "ᷟ", "ᷠ", "ᷡ", "ᷢ", "ᷣ", "ᷤ", "ᷥ", "ᷦ", "ᷧ", "ᷨ", "ᷩ", "ᷪ",
      "ᷫ", "ᷬ", "ᷭ", "ᷮ", "ᷯ", "ᷰ", "ᷱ", "ᷲ", "ᷳ", "ᷴ", "᷵", "᷶", "᷷", "᷸", "᷹", "᷺",
      "᷻", "᷼", "᷽", "᷾", "᷿", "᾽", "᾿", "῀", "῁", "῍", "῎", "῏", "῝", "῞", "῟", "῭",
      "΅", "`", "´", "῾", "U+200B", "U+200C", "U+200D", "U+200E", "U+200F", "U+2018",
      "U+2019", "U+2024", "U+2027", "U+202A", "U+202B", "U+202C", "U+202D", "U+202E",
      "U+2060", "U+2061", "U+2062", "U+2063", "U+2064", "U+2066", "U+2067", "U+2068",
      "U+2069", "U+206A", "U+206B", "U+206C", "U+206D", "U+206E", "U+206F", "U+2071",
      "U+207F", "ₐ", "ₑ", "ₒ", "ₓ", "ₔ", "ₕ", "ₖ", "ₗ", "ₘ", "ₙ", "ₚ", "ₛ", "ₜ", "⃐",
      "⃑", "⃒", "⃓", "⃔", "⃕", "⃖", "⃗", "⃘", "⃙", "⃚", "⃛", "⃜", "⃝", "⃞", "⃟", "⃠",
      "⃡", "⃢", "⃣", "⃤", "⃥", "⃦", "⃧", "⃨", "⃩", "⃪", "⃫", "⃬", "⃭", "⃮", "⃯", "⃰",
      "U+2C7C", "U+2C7D", "⳯", "⳰", "⳱", "U+2D6F", "U+2D7F", "ⷠ", "ⷡ", "ⷢ", "ⷣ", "ⷤ",
      "ⷥ", "ⷦ", "ⷧ", "ⷨ", "ⷩ", "ⷪ", "ⷫ", "ⷬ", "ⷭ", "ⷮ", "ⷯ", "ⷰ", "ⷱ", "ⷲ", "ⷳ", "ⷴ",
      "ⷵ", "ⷶ", "ⷷ", "ⷸ", "ⷹ", "ⷺ", "ⷻ", "ⷼ", "ⷽ", "ⷾ", "ⷿ", "U+2E2F", "U+3005",
      "U+302A", "U+302B", "U+302C", "U+302D", "U+3031", "U+3032", "U+3033", "U+3034",
      "U+3035", "U+303B", "゙", "゚", "゛", "゜", "ゝ", "ゞ", "ー", "ヽ", "ヾ", "U+A015", "ꓸ",
      "ꓹ", "ꓺ", "ꓻ", "ꓼ", "ꓽ", "U+A60C", "U+A66F", "U+A670", "U+A671", "U+A672",
      "U+A674", "U+A675", "U+A676", "U+A677", "U+A678", "U+A679", "U+A67A", "U+A67B",
      "U+A67C", "U+A67D", "U+A67F", "ꚜ", "ꚝ", "ꚞ", "ꚟ", "꛰", "꛱", "U+A700", "U+A701",
      "U+A702", "U+A703", "U+A704", "U+A705", "U+A706", "U+A707", "U+A708", "U+A709",
      "U+A70A", "U+A70B", "U+A70C", "U+A70D", "U+A70E", "U+A70F", "U+A710", "U+A711",
      "U+A712", "U+A713", "U+A714", "U+A715", "U+A716", "U+A717", "U+A718", "U+A719",
      "U+A71A", "U+A71B", "U+A71C", "U+A71D", "U+A71E", "U+A71F", "U+A720", "U+A721",
      "U+A770", "ꞈ", "꞉", "꞊", "꟱", "ꟲ", "ꟳ", "ꟴ", "ꟸ", "ꟹ", "U+A802", "U+A806",
      "U+A80B", "U+A825", "U+A826", "U+A82C", "꣄", "ꣅ", "꣠", "꣡", "꣢", "꣣", "꣤", "꣥",
      "꣦", "꣧", "꣨", "꣩", "꣪", "꣫", "꣬", "꣭", "꣮", "꣯", "꣰", "꣱", "ꣿ", "U+A926",
      "U+A927", "U+A928", "U+A929", "U+A92A", "U+A92B", "U+A92C", "U+A92D", "U+A947",
      "U+A948", "U+A949", "U+A94A", "U+A94B", "U+A94C", "U+A94D", "U+A94E", "U+A94F",
      "U+A950", "U+A951", "ꦀ", "ꦁ", "ꦂ", "꦳", "ꦶ", "ꦷ", "ꦸ", "ꦹ", "ꦼ", "ꦽ", "ꧏ", "ꧥ",
      "ꧦ", "U+AA29", "U+AA2A", "U+AA2B", "U+AA2C", "U+AA2D", "U+AA2E", "U+AA31",
      "U+AA32", "U+AA35", "U+AA36", "U+AA43", "U+AA4C", "U+AA70", "U+AA7C", "ꪰ", "ꪲ",
      "ꪳ", "ꪴ", "ꪷ", "ꪸ", "ꪾ", "꪿", "꫁", "ꫝ", "ꫬ", "ꫭ", "ꫳ", "ꫴ", "꫶", "U+AB5B",
      "U+AB5C", "U+AB5D", "U+AB5E", "U+AB5F", "U+AB69", "U+AB6A", "U+AB6B", "ꯥ", "ꯨ",
      "꯭", "U+FB1E", "﮲", "﮳", "﮴", "﮵", "﮶", "﮷", "﮸", "﮹", "﮺", "﮻", "﮼", "﮽", "﮾",
      "﮿", "﯀", "﯁", "﯂", "U+FE00", "U+FE01", "U+FE02", "U+FE03", "U+FE04", "U+FE05",
      "U+FE06", "U+FE07", "U+FE08", "U+FE09", "U+FE0A", "U+FE0B", "U+FE0C", "U+FE0D",
      "U+FE0E", "U+FE0F", "U+FE13", "U+FE20", "U+FE21", "U+FE22", "U+FE23", "U+FE24",
      "U+FE25", "U+FE26", "U+FE27", "U+FE28", "U+FE29", "U+FE2A", "U+FE2B", "U+FE2C",
      "U+FE2D", "U+FE2E", "U+FE2F", "U+FE52", "U+FE55", "﻿", "U+FF07", "U+FF0E",
      "U+FF1A", "U+FF3E", "U+FF40", "U+FF70", "ﾞ", "ﾟ", "￣", "￹", "￺", "￻" }

\* the code units with the property Cased that are in neither table above
OtherCased ==
    { "ª", "µ", "º", "U+0131", "U+0138", "U+0149", "U+017F", "ƍ", "ƪ", "ƫ", "ƺ", "ƾ",
      "ǰ", "U+0221", "U+0234", "U+0235", "U+0236", "U+0237", "U+0238", "U+0239",
      "U+0255", "U+0258", "U+025A", "U+025D", "U+025E", "U+025F", "U+0262", "U+0267",
      "U+026D", "U+026E", "U+0270", "U+0273", "U+0274", "U+0276", "U+0277", "U+0278",
      "U+0279", "U+027A", "U+027B", "U+027C", "U+027E", "U+027F", "ʁ", "ʄ", "ʅ", "ʆ",
      "ʍ", "ʎ", "ʏ", "ʐ", "ʑ", "ʓ", "ʖ", "ʗ", "ʘ", "ʙ", "ʚ", "ʛ", "ʜ", "ʟ", "ʠ", "ʡ",
      "ʢ", "ʣ", "ʤ", "ʥ", "ʦ", "ʧ", "ʨ", "ʩ", "ʪ", "ʫ", "ʬ", "ʭ", "ʮ", "ʯ", "ΐ", "ΰ",
      "ς", "ϐ", "ϑ", "ϒ", "ϓ", "ϔ", "ϕ", "ϖ", "ϰ", "ϱ", "ϵ", "ϼ", "U+0560", "և", "ֈ",
      "ᲀ", "ᲁ", "ᲂ", "ᲃ", "ᲄ", "ᲅ", "ᲆ", "ᲇ", "ᲈ", "U+1D00", "U+1D01", "U+1D02",
      "U+1D03", "U+1D04", "U+1D05", "U+1D06", "U+1D07", "U+1D08", "U+1D09", "U+1D0A",
      "U+1D0B", "U+1D0C", "U+1D0D", "U+1D0E", "U+1D0F", "U+1D10", "U+1D11", "U+1D12",
      "U+1D13", "U+1D14", "U+1D15", "U+1D16", "U+1D17", "U+1D18", "U+1D19", "U+1D1A",
      "U+1D1B", "U+1D1C", "U+1D1D", "U+1D1E", "U+1D1F", "U+1D20", "U+1D21", "U+1D22",
      "U+1D23", "U+1D24", "U+1D25", "U+1D26", "U+1D27", "U+1D28", "U+1D29", "U+1D2A",
      "U+1D2B", "U+1D6B", "U+1D6C", "U+1D6D", "U+1D6E", "U+1D6F", "U+1D70", "U+1D71",
      "U+1D72", "U+1D73", "U+1D74", "U+1D75", "U+1D76", "U+1D77", "U+1D7A", "U+1D7B",
      "U+1D7C", "U+1D7E", "U+1D7F", "ᶀ", "ᶁ", "ᶂ", "ᶃ", "ᶄ", "ᶅ", "ᶆ", "ᶇ", "ᶈ", "ᶉ",
      "ᶊ", "ᶋ", "ᶌ", "ᶍ", "ᶏ", "ᶐ", "ᶑ", "ᶒ", "ᶓ", "ᶔ", "ᶕ", "ᶖ", "ᶗ", "ᶘ", "ᶙ", "ᶚ",
      "ẖ", "ẗ", "ẘ", "ẙ", "ẚ", "ẛ", "ẜ", "ẝ", "ẟ", "U+1F50", "U+1F52", "U+1F54",
      "U+1F56", "ᾲ", "ᾴ", "ᾶ", "ᾷ", "ι", "ῂ", "ῄ", "ῆ", "ῇ", "ῒ", "ΐ", "ῖ", "ῗ", "ῢ",
      "ΰ", "ῤ", "ῦ", "ῧ", "ῲ", "ῴ", "ῶ", "ῷ", "U+2102", "U+2107", "U+210A", "U+210B",
      "U+210C", "U+210D", "U+210E", "U+210F", "U+2110", "U+2111", "U+2112", "U+2113",
      "U+2115", "U+2119", "U+211A", "U+211B", "U+211C", "U+211D", "U+2124", "U+2128",
      "U+212C", "U+212D", "U+212F", "U+2130", "U+2131", "U+2133", "U+2134", "U+2139",
      "U+213C", "U+213D", "U+213E", "U+213F", "U+2145", "U+2146", "U+2147", "U+2148",
      "U+2149", "U+2C71", "U+2C74", "U+2C77", "U+2C78", "U+2C79", "U+2C7A", "U+2C7B",
      "ⳤ", "U+A730", "U+A731", "U+A771", "U+A772", "U+A773", "U+A774", "U+A775",
      "U+A776", "U+A777", "U+A778", "ꞎ", "ꞕ", "ꞯ", "ꟺ", "U+AB30", "U+AB31", "U+AB32",
      "U+AB33", "U+AB34", "U+AB35", "U+AB36", "U+AB37", "U+AB38", "U+AB39", "U+AB3A",
      "U+AB3B", "U+AB3C", "U+AB3D", "U+AB3E", "U+AB3F", "U+AB40", "U+AB41", "U+AB42",
      "U+AB43", "U+AB44", "U+AB45", "U+AB46", "U+AB47", "U+AB48", "U+AB49", "U+AB4A",
      "U+AB4B", "U+AB4C", "U+AB4D", "U+AB4E", "U+AB4F", "U+AB50", "U+AB51", "U+AB52",
      "U+AB54", "U+AB55", "U+AB56", "U+AB57", "U+AB58", "U+AB59", "U+AB5A", "U+AB60",
      "U+AB61", "U+AB62", "U+AB63", "U+AB64", "U+AB65", "U+AB66", "U+AB67", "U+AB68",
      "U+FB00", "U+FB01", "U+FB02", "U+FB03", "U+FB04", "U+FB05", "U+FB06", "U+FB13",
      "U+FB14", "U+FB15", "U+FB16", "U+FB17" }

\* the code units with the property Cased; none is case-ignorable but those
\* of CaseIgnorable
Cased ==
    Letters \cup { LowerCase[n] : n \in DOMAIN LowerCase } \cup {"U+0130"} \cup OtherCased

\* the same outside the Basic Multilingual Plane: by high surrogate, the low
\* surrogates
SupplementaryCaseIgnorable ==
    "U+D800" :>
        { "U+DDFD", "U+DEE0", "U+DF76", "U+DF77", "U+DF78", "U+DF79", "U+DF7A" } @@
    "U+D801" :>
        { "U+DF80", "U+DF81", "U+DF82", "U+DF83", "U+DF84", "U+DF85", "U+DF87",
          "U+DF88", "U+DF89", "U+DF8A", "U+DF8B", "U+DF8C", "U+DF8D", "U+DF8E",
          "U+DF8F", "U+DF90", "U+DF91", "U+DF92", "U+DF93", "U+DF94", "U+DF95",
          "U+DF96", "U+DF97", "U+DF98", "U+DF99", "U+DF9A", "U+DF9B", "U+DF9C",
          "U+DF9D", "U+DF9E", "U+DF9F", "U+DFA0", "U+DFA1", "U+DFA2", "U+DFA3",
          "U+DFA4", "U+DFA5", "U+DFA6", "U+DFA7", "U+DFA8", "U+DFA9", "U+DFAA",
          "U+DFAB", "U+DFAC", "U+DFAD", "U+DFAE", "U+DFAF", "U+DFB0", "U+DFB2",
          "U+DFB3", "U+DFB4", "U+DFB5", "U+DFB6", "U+DFB7", "U+DFB8", "U+DFB9",
          "U+DFBA" } @@
    "U+D802" :>
        { "U+DE01", "U+DE02", "U+DE03", "U+DE05", "U+DE06", "U+DE0C", "U+DE0D",
          "U+DE0E", "U+DE0F", "U+DE38", "U+DE39", "U+DE3A", "U+DE3F", "U+DEE5",
          "U+DEE6" } @@
    "U+D803" :>
        { "U+DD24", "U+DD25", "U+DD26", "U+DD27", "U+DD4E", "U+DD69", "U+DD6A",
          "U+DD6B", "U+DD6C", "U+DD6D", "U+DD6F", "U+DEAB", "U+DEAC", "U+DEC5",
          "U+DEFA", "U+DEFB", "U+DEFC", "U+DEFD", "U+DEFE", "U+DEFF", "U+DF46",
          "U+DF47", "U+DF48", "U+DF49", "U+DF4A", "U+DF4B", "U+DF4C", "U+DF4D",
          "U+DF4E", "U+DF4F", "U+DF50", "U+DF82", "U+DF83", "U+DF84", "U+DF85" } @@
    "U+D804" :>
        { "U+DC01", "U+DC38", "U+DC39", "U+DC3A", "U+DC3B", "U+DC3C", "U+DC3D",
          "U+DC3E", "U+DC3F", "U+DC40", "U+DC41", "U+DC42", "U+DC43", "U+DC44",
          "U+DC45", "U+DC46", "U+DC70", "U+DC73", "U+DC74", "U+DC7F", "U+DC80",
          "U+DC81", "U+DCB3", "U+DCB4", "U+DCB5", "U+DCB6", "U+DCB9", "U+DCBA",
          "U+DCBD", "U+DCC2", "U+DCCD", "U+DD00", "U+DD01", "U+DD02", "U+DD27",
          "U+DD28", "U+DD29", "U+DD2A", "U+DD2B", "U+DD2D", "U+DD2E", "U+DD2F",
          "U+DD30", "U+DD31", "U+DD32", "U+DD33", "U+DD34", "U+DD73", "U+DD80",
          "U+DD81", "U+DDB6", "U+DDB7", "U+DDB8", "U+DDB9", "U+DDBA", "U+DDBB",
          "U+DDBC", "U+DDBD", "U+DDBE", "U+DDC9", "U+DDCA", "U+DDCB", "U+DDCC",
          "U+DDCF", "U+DE2F", "U+DE30", "U+DE31", "U+DE34", "U+DE36", "U+DE37",
          "U+DE3E", "U+DE41", "U+DEDF", "U+DEE3", "U+DEE4", "U+DEE5", "U+DEE6",
          "U+DEE7", "U+DEE8", "U+DEE9", "U+DEEA", "U+DF00", "U+DF01", "U+DF3B",
          "U+DF3C", "U+DF40", "U+DF66", "U+DF67", "U+DF68", "U+DF69", "U+DF6A",
          "U+DF6B", "U+DF6C", "U+DF70", "U+DF71", "U+DF72", "U+DF73", "U+DF74",
          "U+DFBB", "U+DFBC", "U+DFBD", "U+DFBE", "U+DFBF", "U+DFC0", "U+DFCE",
          "U+DFD0", "U+DFD2", "U+DFE1", "U+DFE2" } @@
    "U+D805" :>
        { "U+DC38", "U+DC39", "U+DC3A", "U+DC3B", "U+DC3C", "U+DC3D", "U+DC3E",
          "U+DC3F", "U+DC42", "U+DC43", "U+DC44", "U+DC46", "U+DC5E", "U+DCB3",
          "U+DCB4", "U+DCB5", "U+DCB6", "U+DCB7", "U+DCB8", "U+DCBA", "U+DCBF",
          "U+DCC0", "U+DCC2", "U+DCC3", "U+DDB2", "U+DDB3", "U+DDB4", "U+DDB5",
          "U+DDBC", "U+DDBD", "U+DDBF", "U+DDC0", "U+DDDC", "U+DDDD", "U+DE33",
          "U+DE34", "U+DE35", "U+DE36", "U+DE37", "U+DE38", "U+DE39", "U+DE3A",
          "U+DE3D", "U+DE3F", "U+DE40", "U+DEAB", "U+DEAD", "U+DEB0", "U+DEB1",
          "U+DEB2", "U+DEB3", "U+DEB4", "U+DEB5", "U+DEB7", "U+DF1D", "U+DF1F",
          "U+DF22", "U+DF23", "U+DF24", "U+DF25", "U+DF27", "U+DF28", "U+DF29",
          "U+DF2A", "U+DF2B" } @@
    "U+D806" :>
        { "U+DC2F", "U+DC30", "U+DC31", "U+DC32", "U+DC33", "U+DC34", "U+DC35",
          "U+DC36", "U+DC37", "U+DC39", "U+DC3A", "U+DD3B", "U+DD3C", "U+DD3E",
          "U+DD43", "U+DDD4", "U+DDD5", "U+DDD6", "U+DDD7", "U+DDDA", "U+DDDB",
          "U+DDE0", "U+DE01", "U+DE02", "U+DE03", "U+DE04", "U+DE05", "U+DE06",
          "U+DE07", "U+DE08", "U+DE09", "U+DE0A", "U+DE33", "U+DE34", "U+DE35",
          "U+DE36", "U+DE37", "U+DE38", "U+DE3B", "U+DE3C", "U+DE3D", "U+DE3E",
          "U+DE47", "U+DE51", "U+DE52", "U+DE53", "U+DE54", "U+DE55", "U+DE56",
          "U+DE59", "U+DE5A", "U+DE5B", "U+DE8A", "U+DE8B", "U+DE8C", "U+DE8D",
          "U+DE8E", "U+DE8F", "U+DE90", "U+DE91", "U+DE92", "U+DE93", "U+DE94",
          "U+DE95", "U+DE96", "U+DE98", "U+DE99", "U+DF60", "U+DF62", "U+DF63",
          "U+DF64", "U+DF66" } @@
    "U+D807" :>
        { "U+DC30", "U+DC31", "U+DC32", "U+DC33", "U+DC34", "U+DC35", "U+DC36",
          "U+DC38", "U+DC39", "U+DC3A", "U+DC3B", "U+DC3C", "U+DC3D", "U+DC3F",
          "U+DC92", "U+DC93", "U+DC94", "U+DC95", "U+DC96", "U+DC97", "U+DC98",
          "U+DC99", "U+DC9A", "U+DC9B", "U+DC9C", "U+DC9D", "U+DC9E", "U+DC9F",
          "U+DCA0", "U+DCA1", "U+DCA2", "U+DCA3", "U+DCA4", "U+DCA5", "U+DCA6",
          "U+DCA7", "U+DCAA", "U+DCAB", "U+DCAC", "U+DCAD", "U+DCAE", "U+DCAF",
          "U+DCB0", "U+DCB2", "U+DCB3", "U+DCB5", "U+DCB6", "U+DD31", "U+DD32",
          "U+DD33", "U+DD34", "U+DD35", "U+DD36", "U+DD3A", "U+DD3C", "U+DD3D",
          "U+DD3F", "U+DD40", "U+DD41", "U+DD42", "U+DD43", "U+DD44", "U+DD45",
          "U+DD47", "U+DD90", "U+DD91", "U+DD95", "U+DD97", "U+DDD9", "U+DEF3",
          "U+DEF4", "U+DF00", "U+DF01", "U+DF36", "U+DF37", "U+DF38", "U+DF39",
          "U+DF3A", "U+DF40", "U+DF42", "U+DF5A" } @@
    "U+D80D" :>
        { "U+DC30", "U+DC31", "U+DC32", "U+DC33", "U+DC34", "U+DC35", "U+DC36",
          "U+DC37", "U+DC38", "U+DC39", "U+DC3A", "U+DC3B", "U+DC3C", "U+DC3D",
          "U+DC3E", "U+DC3F", "U+DC40", "U+DC47", "U+DC48", "U+DC49", "U+DC4A",
          "U+DC4B", "U+DC4C", "U+DC4D", "U+DC4E", "U+DC4F", "U+DC50", "U+DC51",
          "U+DC52", "U+DC53", "U+DC54", "U+DC55" } @@
    "U+D818" :>
        { "U+DD1E", "U+DD1F", "U+DD20", "U+DD21", "U+DD22", "U+DD23", "U+DD24",
          "U+DD25", "U+DD26", "U+DD27", "U+DD28", "U+DD29", "U+DD2D", "U+DD2E",
          "U+DD2F" } @@
    "U+D81A" :>
        { "U+DEF0", "U+DEF1", "U+DEF2", "U+DEF3", "U+DEF4", "U+DF30", "U+DF31",
          "U+DF32", "U+DF33", "U+DF34", "U+DF35", "U+DF36", "U+DF40", "U+DF41",
          "U+DF42", "U+DF43" } @@
    "U+D81B" :>
        { "U+DD40", "U+DD41", "U+DD42", "U+DD6B", "U+DD6C", "U+DF4F", "U+DF8F",
          "U+DF90", "U+DF91", "U+DF92", "U+DF93", "U+DF94", "U+DF95", "U+DF96",
          "U+DF97", "U+DF98", "U+DF99", "U+DF9A", "U+DF9B", "U+DF9C", "U+DF9D",
          "U+DF9E", "U+DF9F", "U+DFE0", "U+DFE1", "U+DFE3", "U+DFE4", "U+DFF2",
          "U+DFF3" } @@
    "U+D82B" :>
        { "U+DFF0", "U+DFF1", "U+DFF2", "U+DFF3", "U+DFF5", "U+DFF6", "U+DFF7",
          "U+DFF8", "U+DFF9", "U+DFFA", "U+DFFB", "U+DFFD", "U+DFFE" } @@
    "U+D82F" :>
        { "U+DC9D", "U+DC9E", "U+DCA0", "U+DCA1", "U+DCA2", "U+DCA3" } @@
    "U+D833" :>
        { "U+DF00", "U+DF01", "U+DF02", "U+DF03", "U+DF04", "U+DF05", "U+DF06",
          "U+DF07", "U+DF08", "U+DF09", "U+DF0A", "U+DF0B", "U+DF0C", "U+DF0D",
          "U+DF0E", "U+DF0F", "U+DF10", "U+DF11", "U+DF12", "U+DF13", "U+DF14",
          "U+DF15", "U+DF16", "U+DF17", "U+DF18", "U+DF19", "U+DF1A", "U+DF1B",
          "U+DF1C", "U+DF1D", "U+DF1E", "U+DF1F", "U+DF20", "U+DF21", "U+DF22",
          "U+DF23", "U+DF24", "U+DF25", "U+DF26", "U+DF27", "U+DF28", "U+DF29",
          "U+DF2A", "U+DF2B", "U+DF2C", "U+DF2D", "U+DF30", "U+DF31", "U+DF32",
          "U+DF33", "U+DF34", "U+DF35", "U+DF36", "U+DF37", "U+DF38", "U+DF39",
          "U+DF3A", "U+DF3B", "U+DF3C", "U+DF3D", "U+DF3E", "U+DF3F", "U+DF40",
          "U+DF41", "U+DF42", "U+DF43", "U+DF44", "U+DF45", "U+DF46" } @@
    "U+D834" :>
        { "U+DD67", "U+DD68", "U+DD69", "U+DD73", "U+DD74", "U+DD75", "U+DD76",
          "U+DD77", "U+DD78", "U+DD79", "U+DD7A", "U+DD7B", "U+DD7C", "U+DD7D",
          "U+DD7E", "U+DD7F", "U+DD80", "U+DD81", "U+DD82", "U+DD85", "U+DD86",
          "U+DD87", "U+DD88", "U+DD89", "U+DD8A", "U+DD8B", "U+DDAA", "U+DDAB",
          "U+DDAC", "U+DDAD", "U+DE42", "U+DE43", "U+DE44" } @@
    "U+D836" :>
        { "U+DE00", "U+DE01", "U+DE02", "U+DE03", "U+DE04", "U+DE05", "U+DE06",
          "U+DE07", "U+DE08", "U+DE09", "U+DE0A", "U+DE0B", "U+DE0C", "U+DE0D",
          "U+DE0E", "U+DE0F", "U+DE10", "U+DE11", "U+DE12", "U+DE13", "U+DE14",
          "U+DE15", "U+DE16", "U+DE17", "U+DE18", "U+DE19", "U+DE1A", "U+DE1B",
          "U+DE1C", "U+DE1D", "U+DE1E", "U+DE1F", "U+DE20", "U+DE21", "U+DE22",
          "U+DE23", "U+DE24", "U+DE25", "U+DE26", "U+DE27", "U+DE28", "U+DE29",
          "U+DE2A", "U+DE2B", "U+DE2C", "U+DE2D", "U+DE2E", "U+DE2F", "U+DE30",
          "U+DE31", "U+DE32", "U+DE33", "U+DE34", "U+DE35", "U+DE36", "U+DE3B",
          "U+DE3C", "U+DE3D", "U+DE3E", "U+DE3F", "U+DE40", "U+DE41", "U+DE42",
          "U+DE43", "U+DE44", "U+DE45", "U+DE46", "U+DE47", "U+DE48", "U+DE49",
          "U+DE4A", "U+DE4B", "U+DE4C", "U+DE4D", "U+DE4E", "U+DE4F", "U+DE50",
          "U+DE51", "U+DE52", "U+DE53", "U+DE54", "U+DE55", "U+DE56", "U+DE57",
          "U+DE58", "U+DE59", "U+DE5A", "U+DE5B", "U+DE5C", "U+DE5D", "U+DE5E",
          "U+DE5F", "U+DE60", "U+DE61", "U+DE62", "U+DE63", "U+DE64", "U+DE65",
          "U+DE66", "U+DE67", "U+DE68", "U+DE69", "U+DE6A", "U+DE6B", "U+DE6C",
          "U+DE75", "U+DE84", "U+DE9B", "U+DE9C", "U+DE9D", "U+DE9E", "U+DE9F",
          "U+DEA1", "U+DEA2", "U+DEA3", "U+DEA4", "U+DEA5", "U+DEA6", "U+DEA7",
          "U+DEA8", "U+DEA9", "U+DEAA", "U+DEAB", "U+DEAC", "U+DEAD", "U+DEAE",
          "U+DEAF" } @@
    "U+D838" :>
        { "U+DC00", "U+DC01", "U+DC02", "U+DC03", "U+DC04", "U+DC05", "U+DC06",
          "U+DC08", "U+DC09", "U+DC0A", "U+DC0B", "U+DC0C", "U+DC0D", "U+DC0E",
          "U+DC0F", "U+DC10", "U+DC11", "U+DC12", "U+DC13", "U+DC14", "U+DC15",
          "U+DC16", "U+DC17", "U+DC18", "U+DC1B", "U+DC1C", "U+DC1D", "U+DC1E",
          "U+DC1F", "U+DC20", "U+DC21", "U+DC23", "U+DC24", "U+DC26", "U+DC27",
          "U+DC28", "U+DC29", "U+DC2A", "U+DC30", "U+DC31", "U+DC32", "U+DC33",
          "U+DC34", "U+DC35", "U+DC36", "U+DC37", "U+DC38", "U+DC39", "U+DC3A",
          "U+DC3B", "U+DC3C", "U+DC3D", "U+DC3E", "U+DC3F", "U+DC40", "U+DC41",
          "U+DC42", "U+DC43", "U+DC44", "U+DC45", "U+DC46", "U+DC47", "U+DC48",
          "U+DC49", "U+DC4A", "U+DC4B", "U+DC4C", "U+DC4D", "U+DC4E", "U+DC4F",
          "U+DC50", "U+DC51", "U+DC52", "U+DC53", "U+DC54", "U+DC55", "U+DC56",
          "U+DC57", "U+DC58", "U+DC59", "U+DC5A", "U+DC5B", "U+DC5C", "U+DC5D",
          "U+DC5E", "U+DC5F", "U+DC60", "U+DC61", "U+DC62", "U+DC63", "U+DC64",
          "U+DC65", "U+DC66", "U+DC67", "U+DC68", "U+DC69", "U+DC6A", "U+DC6B",
          "U+DC6C", "U+DC6D", "U+DC8F", "U+DD30", "U+DD31", "U+DD32", "U+DD33",
          "U+DD34", "U+DD35", "U+DD36", "U+DD37", "U+DD38", "U+DD39", "U+DD3A",
          "U+DD3B", "U+DD3C", "U+DD3D", "U+DEAE", "U+DEEC", "U+DEED", "U+DEEE",
          "U+DEEF" } @@
    "U+D839" :>
        { "U+DCEB", "U+DCEC", "U+DCED", "U+DCEE", "U+DCEF", "U+DDEE", "U+DDEF",
          "U+DEE3", "U+DEE6", "U+DEEE", "U+DEEF", "U+DEF5", "U+DEFF" } @@
    "U+D83A" :>
        { "U+DCD0", "U+DCD1", "U+DCD2", "U+DCD3", "U+DCD4", "U+DCD5", "U+DCD6",
          "U+DD44", "U+DD45", "U+DD46", "U+DD47", "U+DD48", "U+DD49", "U+DD4A",
          "U+DD4B" } @@
    "U+D83C" :>
        { "U+DFFB", "U+DFFC", "U+DFFD", "U+DFFE", "U+DFFF" } @@
    "U+DB40" :>
        { "U+DC01", "U+DC20", "U+DC21", "U+DC22", "U+DC23", "U+DC24", "U+DC25",
          "U+DC26", "U+DC27", "U+DC28", "U+DC29", "U+DC2A", "U+DC2B", "U+DC2C",
          "U+DC2D", "U+DC2E", "U+DC2F", "U+DC30", "U+DC31", "U+DC32", "U+DC33",
          "U+DC34", "U+DC35", "U+DC36", "U+DC37", "U+DC38", "U+DC39", "U+DC3A",
          "U+DC3B", "U+DC3C", "U+DC3D", "U+DC3E", "U+DC3F", "U+DC40", "U+DC41",
          "U+DC42", "U+DC43", "U+DC44", "U+DC45", "U+DC46", "U+DC47", "U+DC48",
          "U+DC49", "U+DC4A", "U+DC4B", "U+DC4C", "U+DC4D", "U+DC4E", "U+DC4F",
          "U+DC50", "U+DC51", "U+DC52", "U+DC53", "U+DC54", "U+DC55", "U+DC56",
          "U+DC57", "U+DC58", "U+DC59", "U+DC5A", "U+DC5B", "U+DC5C", "U+DC5D",
          "U+DC5E", "U+DC5F", "U+DC60", "U+DC61", "U+DC62", "U+DC63", "U+DC64",
          "U+DC65", "U+DC66", "U+DC67", "U+DC68", "U+DC69", "U+DC6A", "U+DC6B",
          "U+DC6C", "U+DC6D", "U+DC6E", "U+DC6F", "U+DC70", "U+DC71", "U+DC72",
          "U+DC73", "U+DC74", "U+DC75", "U+DC76", "U+DC77", "U+DC78", "U+DC79",
          "U+DC7A", "U+DC7B", "U+DC7C", "U+DC7D", "U+DC7E", "U+DC7F", "U+DD00",
          "U+DD01", "U+DD02", "U+DD03", "U+DD04", "U+DD05", "U+DD06", "U+DD07",
          "U+DD08", "U+DD09", "U+DD0A", "U+DD0B", "U+DD0C", "U+DD0D", "U+DD0E",
          "U+DD0F", "U+DD10", "U+DD11", "U+DD12", "U+DD13", "U+DD14", "U+DD15",
          "U+DD16", "U+DD17", "U+DD18", "U+DD19", "U+DD1A", "U+DD1B", "U+DD1C",
          "U+DD1D", "U+DD1E", "U+DD1F", "U+DD20", "U+DD21", "U+DD22", "U+DD23",
          "U+DD24", "U+DD25", "U+DD26", "U+DD27", "U+DD28", "U+DD29", "U+DD2A",
          "U+DD2B", "U+DD2C", "U+DD2D", "U+DD2E", "U+DD2F", "U+DD30", "U+DD31",
          "U+DD32", "U+DD33", "U+DD34", "U+DD35", "U+DD36", "U+DD37", "U+DD38",
          "U+DD39", "U+DD3A", "U+DD3B", "U+DD3C", "U+DD3D", "U+DD3E", "U+DD3F",
          "U+DD40", "U+DD41", "U+DD42", "U+DD43", "U+DD44", "U+DD45", "U+DD46",
          "U+DD47", "U+DD48", "U+DD49", "U+DD4A", "U+DD4B", "U+DD4C", "U+DD4D",
          "U+DD4E", "U+DD4F", "U+DD50", "U+DD51", "U+DD52", "U+DD53", "U+DD54",
          "U+DD55", "U+DD56", "U+DD57", "U+DD58", "U+DD59", "U+DD5A", "U+DD5B",
          "U+DD5C", "U+DD5D", "U+DD5E", "U+DD5F", "U+DD60", "U+DD61", "U+DD62",
          "U+DD63", "U+DD64", "U+DD65", "U+DD66", "U+DD67", "U+DD68", "U+DD69",
          "U+DD6A", "U+DD6B", "U+DD6C", "U+DD6D", "U+DD6E", "U+DD6F", "U+DD70",
          "U+DD71", "U+DD72", "U+DD73", "U+DD74", "U+DD75", "U+DD76", "U+DD77",
          "U+DD78", "U+DD79", "U+DD7A", "U+DD7B", "U+DD7C", "U+DD7D", "U+DD7E",
          "U+DD7F", "U+DD80", "U+DD81", "U+DD82", "U+DD83", "U+DD84", "U+DD85",
          "U+DD86", "U+DD87", "U+DD88", "U+DD89", "U+DD8A", "U+DD8B", "U+DD8C",
          "U+DD8D", "U+DD8E", "U+DD8F", "U+DD90", "U+DD91", "U+DD92", "U+DD93",
          "U+DD94", "U+DD95", "U+DD96", "U+DD97", "U+DD98", "U+DD99", "U+DD9A",
          "U+DD9B", "U+DD9C", "U+DD9D", "U+DD9E", "U+DD9F", "U+DDA0", "U+DDA1",
          "U+DDA2", "U+DDA3", "U+DDA4", "U+DDA5", "U+DDA6", "U+DDA7", "U+DDA8",
          "U+DDA9", "U+DDAA", "U+DDAB", "U+DDAC", "U+DDAD", "U+DDAE", "U+DDAF",
          "U+DDB0", "U+DDB1", "U+DDB2", "U+DDB3", "U+DDB4", "U+DDB5", "U+DDB6",
          "U+DDB7", "U+DDB8", "U+DDB9", "U+DDBA", "U+DDBB", "U+DDBC", "U+DDBD",
          "U+DDBE", "U+DDBF", "U+DDC0", "U+DDC1", "U+DDC2", "U+DDC3", "U+DDC4",
          "U+DDC5", "U+DDC6", "U+DDC7", "U+DDC8", "U+DDC9", "U+DDCA", "U+DDCB",
          "U+DDCC", "U+DDCD", "U+DDCE", "U+DDCF", "U+DDD0", "U+DDD1", "U+DDD2",
          "U+DDD3", "U+DDD4", "U+DDD5", "U+DDD6", "U+DDD7", "U+DDD8", "U+DDD9",
          "U+DDDA", "U+DDDB", "U+DDDC", "U+DDDD", "U+DDDE", "U+DDDF", "U+DDE0",
          "U+DDE1", "U+DDE2", "U+DDE3", "U+DDE4", "U+DDE5", "U+DDE6", "U+DDE7",
          "U+DDE8", "U+DDE9", "U+DDEA", "U+DDEB", "U+DDEC", "U+DDED", "U+DDEE",
          "U+DDEF" }

SupplementaryOtherCased ==
    "U+D835" :>
        { "U+DC00", "U+DC01", "U+DC02", "U+DC03", "U+DC04", "U+DC05", "U+DC06",
          "U+DC07", "U+DC08", "U+DC09", "U+DC0A", "U+DC0B", "U+DC0C", "U+DC0D",
          "U+DC0E", "U+DC0F", "U+DC10", "U+DC11", "U+DC12", "U+DC13", "U+DC14",
          "U+DC15", "U+DC16", "U+DC17", "U+DC18", "U+DC19", "U+DC1A", "U+DC1B",
          "U+DC1C", "U+DC1D", "U+DC1E", "U+DC1F", "U+DC20", "U+DC21", "U+DC22",
          "U+DC23", "U+DC24", "U+DC25", "U+DC26", "U+DC27", "U+DC28", "U+DC29",
          "U+DC2A", "U+DC2B", "U+DC2C", "U+DC2D", "U+DC2E", "U+DC2F", "U+DC30",
          "U+DC31", "U+DC32", "U+DC33", "U+DC34", "U+DC35", "U+DC36", "U+DC37",
          "U+DC38", "U+DC39", "U+DC3A", "U+DC3B", "U+DC3C", "U+DC3D", "U+DC3E",
          "U+DC3F", "U+DC40", "U+DC41", "U+DC42", "U+DC43", "U+DC44", "U+DC45",
          "U+DC46", "U+DC47", "U+DC48", "U+DC49", "U+DC4A", "U+DC4B", "U+DC4C",
          "U+DC4D", "U+DC4E", "U+DC4F", "U+DC50", "U+DC51", "U+DC52", "U+DC53",
          "U+DC54", "U+DC56", "U+DC57", "U+DC58", "U+DC59", "U+DC5A", "U+DC5B",
          "U+DC5C", "U+DC5D", "U+DC5E", "U+DC5F", "U+DC60", "U+DC61", "U+DC62",
          "U+DC63", "U+DC64", "U+DC65", "U+DC66", "U+DC67", "U+DC68", "U+DC69",
          "U+DC6A", "U+DC6B", "U+DC6C", "U+DC6D", "U+DC6E", "U+DC6F", "U+DC70",
          "U+DC71", "U+DC72", "U+DC73", "U+DC74", "U+DC75", "U+DC76", "U+DC77",
          "U+DC78", "U+DC79", "U+DC7A", "U+DC7B", "U+DC7C", "U+DC7D", "U+DC7E",
          "U+DC7F", "U+DC80", "U+DC81", "U+DC82", "U+DC83", "U+DC84", "U+DC85",
          "U+DC86", "U+DC87", "U+DC88", "U+DC89", "U+DC8A", "U+DC8B", "U+DC8C",
          "U+DC8D", "U+DC8E", "U+DC8F", "U+DC90", "U+DC91", "U+DC92", "U+DC93",
          "U+DC94", "U+DC95", "U+DC96", "U+DC97", "U+DC98", "U+DC99", "U+DC9A",
          "U+DC9B", "U+DC9C", "U+DC9E", "U+DC9F", "U+DCA2", "U+DCA5", "U+DCA6",
          "U+DCA9", "U+DCAA", "U+DCAB", "U+DCAC", "U+DCAE", "U+DCAF", "U+DCB0",
          "U+DCB1", "U+DCB2", "U+DCB3", "U+DCB4", "U+DCB5", "U+DCB6", "U+DCB7",
          "U+DCB8", "U+DCB9", "U+DCBB", "U+DCBD", "U+DCBE", "U+DCBF", "U+DCC0",
          "U+DCC1", "U+DCC2", "U+DCC3", "U+DCC5", "U+DCC6", "U+DCC7", "U+DCC8",
          "U+DCC9", "U+DCCA", "U+DCCB", "U+DCCC", "U+DCCD", "U+DCCE", "U+DCCF",
          "U+DCD0", "U+DCD1", "U+DCD2", "U+DCD3", "U+DCD4", "U+DCD5", "U+DCD6",
          "U+DCD7", "U+DCD8", "U+DCD9", "U+DCDA", "U+DCDB", "U+DCDC", "U+DCDD",
          "U+DCDE", "U+DCDF", "U+DCE0", "U+DCE1", "U+DCE2", "U+DCE3", "U+DCE4",
          "U+DCE5", "U+DCE6", "U+DCE7", "U+DCE8", "U+DCE9", "U+DCEA", "U+DCEB",
          "U+DCEC", "U+DCED", "U+DCEE", "U+DCEF", "U+DCF0", "U+DCF1", "U+DCF2",
          "U+DCF3", "U+DCF4", "U+DCF5", "U+DCF6", "U+DCF7", "U+DCF8", "U+DCF9",
          "U+DCFA", "U+DCFB", "U+DCFC", "U+DCFD", "U+DCFE", "U+DCFF", "U+DD00",
          "U+DD01", "U+DD02", "U+DD03", "U+DD04", "U+DD05", "U+DD07", "U+DD08",
          "U+DD09", "U+DD0A", "U+DD0D", "U+DD0E", "U+DD0F", "U+DD10", "U+DD11",
          "U+DD12", "U+DD13", "U+DD14", "U+DD16", "U+DD17", "U+DD18", "U+DD19",
          "U+DD1A", "U+DD1B", "U+DD1C", "U+DD1E", "U+DD1F", "U+DD20", "U+DD21",
          "U+DD22", "U+DD23", "U+DD24", "U+DD25", "U+DD26", "U+DD27", "U+DD28",
          "U+DD29", "U+DD2A", "U+DD2B", "U+DD2C", "U+DD2D", "U+DD2E", "U+DD2F",
          "U+DD30", "U+DD31", "U+DD32", "U+DD33", "U+DD34", "U+DD35", "U+DD36",
          "U+DD37", "U+DD38", "U+DD39", "U+DD3B", "U+DD3C", "U+DD3D", "U+DD3E",
          "U+DD40", "U+DD41", "U+DD42", "U+DD43", "U+DD44", "U+DD46", "U+DD4A",
          "U+DD4B", "U+DD4C", "U+DD4D", "U+DD4E", "U+DD4F", "U+DD50", "U+DD52",
          "U+DD53", "U+DD54", "U+DD55", "U+DD56", "U+DD57", "U+DD58", "U+DD59",
          "U+DD5A", "U+DD5B", "U+DD5C", "U+DD5D", "U+DD5E", "U+DD5F", "U+DD60",
          "U+DD61", "U+DD62", "U+DD63", "U+DD64", "U+DD65", "U+DD66", "U+DD67",
          "U+DD68", "U+DD69", "U+DD6A", "U+DD6B", "U+DD6C", "U+DD6D", "U+DD6E",
          "U+DD6F", "U+DD70", "U+DD71", "U+DD72", "U+DD73", "U+DD74", "U+DD75",
          "U+DD76", "U+DD77", "U+DD78", "U+DD79", "U+DD7A", "U+DD7B", "U+DD7C",
          "U+DD7D", "U+DD7E", "U+DD7F", "U+DD80", "U+DD81", "U+DD82", "U+DD83",
          "U+DD84", "U+DD85", "U+DD86", "U+DD87", "U+DD88", "U+DD89", "U+DD8A",
          "U+DD8B", "U+DD8C", "U+DD8D", "U+DD8E", "U+DD8F", "U+DD90", "U+DD91",
          "U+DD92", "U+DD93", "U+DD94", "U+DD95", "U+DD96", "U+DD97", "U+DD98",
          "U+DD99", "U+DD9A", "U+DD9B", "U+DD9C", "U+DD9D", "U+DD9E", "U+DD9F",
          "U+DDA0", "U+DDA1", "U+DDA2", "U+DDA3", "U+DDA4", "U+DDA5", "U+DDA6",
          "U+DDA7", "U+DDA8", "U+DDA9", "U+DDAA", "U+DDAB", "U+DDAC", "U+DDAD",
          "U+DDAE", "U+DDAF", "U+DDB0", "U+DDB1", "U+DDB2", "U+DDB3", "U+DDB4",
          "U+DDB5", "U+DDB6", "U+DDB7", "U+DDB8", "U+DDB9", "U+DDBA", "U+DDBB",
          "U+DDBC", "U+DDBD", "U+DDBE", "U+DDBF", "U+DDC0", "U+DDC1", "U+DDC2",
          "U+DDC3", "U+DDC4", "U+DDC5", "U+DDC6", "U+DDC7", "U+DDC8", "U+DDC9",
          "U+DDCA", "U+DDCB", "U+DDCC", "U+DDCD", "U+DDCE", "U+DDCF", "U+DDD0",
          "U+DDD1", "U+DDD2", "U+DDD3", "U+DDD4", "U+DDD5", "U+DDD6", "U+DDD7",
          "U+DDD8", "U+DDD9", "U+DDDA", "U+DDDB", "U+DDDC", "U+DDDD", "U+DDDE",
          "U+DDDF", "U+DDE0", "U+DDE1", "U+DDE2", "U+DDE3", "U+DDE4", "U+DDE5",
          "U+DDE6", "U+DDE7", "U+DDE8", "U+DDE9", "U+DDEA", "U+DDEB", "U+DDEC",
          "U+DDED", "U+DDEE", "U+DDEF", "U+DDF0", "U+DDF1", "U+DDF2", "U+DDF3",
          "U+DDF4", "U+DDF5", "U+DDF6", "U+DDF7", "U+DDF8", "U+DDF9", "U+DDFA",
          "U+DDFB", "U+DDFC", "U+DDFD", "U+DDFE", "U+DDFF", "U+DE00", "U+DE01",
          "U+DE02", "U+DE03", "U+DE04", "U+DE05", "U+DE06", "U+DE07", "U+DE08",
          "U+DE09", "U+DE0A", "U+DE0B", "U+DE0C", "U+DE0D", "U+DE0E", "U+DE0F",
          "U+DE10", "U+DE11", "U+DE12", "U+DE13", "U+DE14", "U+DE15", "U+DE16",
          "U+DE17", "U+DE18", "U+DE19", "U+DE1A", "U+DE1B", "U+DE1C", "U+DE1D",
          "U+DE1E", "U+DE1F", "U+DE20", "U+DE21", "U+DE22", "U+DE23", "U+DE24",
          "U+DE25", "U+DE26", "U+DE27", "U+DE28", "U+DE29", "U+DE2A", "U+DE2B",
          "U+DE2C", "U+DE2D", "U+DE2E", "U+DE2F", "U+DE30", "U+DE31", "U+DE32",
          "U+DE33", "U+DE34", "U+DE35", "U+DE36", "U+DE37", "U+DE38", "U+DE39",
          "U+DE3A", "U+DE3B", "U+DE3C", "U+DE3D", "U+DE3E", "U+DE3F", "U+DE40",
          "U+DE41", "U+DE42", "U+DE43", "U+DE44", "U+DE45", "U+DE46", "U+DE47",
          "U+DE48", "U+DE49", "U+DE4A", "U+DE4B", "U+DE4C", "U+DE4D", "U+DE4E",
          "U+DE4F", "U+DE50", "U+DE51", "U+DE52", "U+DE53", "U+DE54", "U+DE55",
          "U+DE56", "U+DE57", "U+DE58", "U+DE59", "U+DE5A", "U+DE5B", "U+DE5C",
          "U+DE5D", "U+DE5E", "U+DE5F", "U+DE60", "U+DE61", "U+DE62", "U+DE63",
          "U+DE64", "U+DE65", "U+DE66", "U+DE67", "U+DE68", "U+DE69", "U+DE6A",
          "U+DE6B", "U+DE6C", "U+DE6D", "U+DE6E", "U+DE6F", "U+DE70", "U+DE71",
          "U+DE72", "U+DE73", "U+DE74", "U+DE75", "U+DE76", "U+DE77", "U+DE78",
          "U+DE79", "U+DE7A", "U+DE7B", "U+DE7C", "U+DE7D", "U+DE7E", "U+DE7F",
          "U+DE80", "U+DE81", "U+DE82", "U+DE83", "U+DE84", "U+DE85", "U+DE86",
          "U+DE87", "U+DE88", "U+DE89", "U+DE8A", "U+DE8B", "U+DE8C", "U+DE8D",
          "U+DE8E", "U+DE8F", "U+DE90", "U+DE91", "U+DE92", "U+DE93", "U+DE94",
          "U+DE95", "U+DE96", "U+DE97", "U+DE98", "U+DE99", "U+DE9A", "U+DE9B",
          "U+DE9C", "U+DE9D", "U+DE9E", "U+DE9F", "U+DEA0", "U+DEA1", "U+DEA2",
          "U+DEA3", "U+DEA4", "U+DEA5", "U+DEA8", "U+DEA9", "U+DEAA", "U+DEAB",
          "U+DEAC", "U+DEAD", "U+DEAE", "U+DEAF", "U+DEB0", "U+DEB1", "U+DEB2",
          "U+DEB3", "U+DEB4", "U+DEB5", "U+DEB6", "U+DEB7", "U+DEB8", "U+DEB9",
          "U+DEBA", "U+DEBB", "U+DEBC", "U+DEBD", "U+DEBE", "U+DEBF", "U+DEC0",
          "U+DEC2", "U+DEC3", "U+DEC4", "U+DEC5", "U+DEC6", "U+DEC7", "U+DEC8",
          "U+DEC9", "U+DECA", "U+DECB", "U+DECC", "U+DECD", "U+DECE", "U+DECF",
          "U+DED0", "U+DED1", "U+DED2", "U+DED3", "U+DED4", "U+DED5", "U+DED6",
          "U+DED7", "U+DED8", "U+DED9", "U+DEDA", "U+DEDC", "U+DEDD", "U+DEDE",
          "U+DEDF", "U+DEE0", "U+DEE1", "U+DEE2", "U+DEE3", "U+DEE4", "U+DEE5",
          "U+DEE6", "U+DEE7", "U+DEE8", "U+DEE9", "U+DEEA", "U+DEEB", "U+DEEC",
          "U+DEED", "U+DEEE", "U+DEEF", "U+DEF0", "U+DEF1", "U+DEF2", "U+DEF3",
          "U+DEF4", "U+DEF5", "U+DEF6", "U+DEF7", "U+DEF8", "U+DEF9", "U+DEFA",
          "U+DEFC", "U+DEFD", "U+DEFE", "U+DEFF", "U+DF00", "U+DF01", "U+DF02",
          "U+DF03", "U+DF04", "U+DF05", "U+DF06", "U+DF07", "U+DF08", "U+DF09",
          "U+DF0A", "U+DF0B", "U+DF0C", "U+DF0D", "U+DF0E", "U+DF0F", "U+DF10",
          "U+DF11", "U+DF12", "U+DF13", "U+DF14", "U+DF16", "U+DF17", "U+DF18",
          "U+DF19", "U+DF1A", "U+DF1B", "U+DF1C", "U+DF1D", "U+DF1E", "U+DF1F",
          "U+DF20", "U+DF21", "U+DF22", "U+DF23", "U+DF24", "U+DF25", "U+DF26",
          "U+DF27", "U+DF28", "U+DF29", "U+DF2A", "U+DF2B", "U+DF2C", "U+DF2D",
          "U+DF2E", "U+DF2F", "U+DF30", "U+DF31", "U+DF32", "U+DF33", "U+DF34",
          "U+DF36", "U+DF37", "U+DF38", "U+DF39", "U+DF3A", "U+DF3B", "U+DF3C",
          "U+DF3D", "U+DF3E", "U+DF3F", "U+DF40", "U+DF41", "U+DF42", "U+DF43",
          "U+DF44", "U+DF45", "U+DF46", "U+DF47", "U+DF48", "U+DF49", "U+DF4A",
          "U+DF4B", "U+DF4C", "U+DF4D", "U+DF4E", "U+DF50", "U+DF51", "U+DF52",
          "U+DF53", "U+DF54", "U+DF55", "U+DF56", "U+DF57", "U+DF58", "U+DF59",
          "U+DF5A", "U+DF5B", "U+DF5C", "U+DF5D", "U+DF5E", "U+DF5F", "U+DF60",
          "U+DF61", "U+DF62", "U+DF63", "U+DF64", "U+DF65", "U+DF66", "U+DF67",
          "U+DF68", "U+DF69", "U+DF6A", "U+DF6B", "U+DF6C", "U+DF6D", "U+DF6E",
          "U+DF70", "U+DF71", "U+DF72", "U+DF73", "U+DF74", "U+DF75", "U+DF76",
          "U+DF77", "U+DF78", "U+DF79", "U+DF7A", "U+DF7B", "U+DF7C", "U+DF7D",
          "U+DF7E", "U+DF7F", "U+DF80", "U+DF81", "U+DF82", "U+DF83", "U+DF84",
          "U+DF85", "U+DF86", "U+DF87", "U+DF88", "U+DF8A", "U+DF8B", "U+DF8C",
          "U+DF8D", "U+DF8E", "U+DF8F", "U+DF90", "U+DF91", "U+DF92", "U+DF93",
          "U+DF94", "U+DF95", "U+DF96", "U+DF97", "U+DF98", "U+DF99", "U+DF9A",
          "U+DF9B", "U+DF9C", "U+DF9D", "U+DF9E", "U+DF9F", "U+DFA0", "U+DFA1",
          "U+DFA2", "U+DFA3", "U+DFA4", "U+DFA5", "U+DFA6", "U+DFA7", "U+DFA8",
          "U+DFAA", "U+DFAB", "U+DFAC", "U+DFAD", "U+DFAE", "U+DFAF", "U+DFB0",
          "U+DFB1", "U+DFB2", "U+DFB3", "U+DFB4", "U+DFB5", "U+DFB6", "U+DFB7",
          "U+DFB8", "U+DFB9", "U+DFBA", "U+DFBB", "U+DFBC", "U+DFBD", "U+DFBE",
          "U+DFBF", "U+DFC0", "U+DFC1", "U+DFC2", "U+DFC4", "U+DFC5", "U+DFC6",
          "U+DFC7", "U+DFC8", "U+DFC9", "U+DFCA", "U+DFCB" } @@
    "U+D837" :>
        { "U+DF00", "U+DF01", "U+DF02", "U+DF03", "U+DF04", "U+DF05", "U+DF06",
          "U+DF07", "U+DF08", "U+DF09", "U+DF0B", "U+DF0C", "U+DF0D", "U+DF0E",
          "U+DF0F", "U+DF10", "U+DF11", "U+DF12", "U+DF13", "U+DF14", "U+DF15",
          "U+DF16", "U+DF17", "U+DF18", "U+DF19", "U+DF1A", "U+DF1B", "U+DF1C",
          "U+DF1D", "U+DF1E", "U+DF25", "U+DF26", "U+DF27", "U+DF28", "U+DF29",
          "U+DF2A" } @@
    "U+D83C" :>
        { "U+DD30", "U+DD31", "U+DD32", "U+DD33", "U+DD34", "U+DD35", "U+DD36",
          "U+DD37", "U+DD38", "U+DD39", "U+DD3A", "U+DD3B", "U+DD3C", "U+DD3D",
          "U+DD3E", "U+DD3F", "U+DD40", "U+DD41", "U+DD42", "U+DD43", "U+DD44",
          "U+DD45", "U+DD46", "U+DD47", "U+DD48", "U+DD49", "U+DD50", "U+DD51",
          "U+DD52", "U+DD53", "U+DD54", "U+DD55", "U+DD56", "U+DD57", "U+DD58",
          "U+DD59", "U+DD5A", "U+DD5B", "U+DD5C", "U+DD5D", "U+DD5E", "U+DD5F",
          "U+DD60", "U+DD61", "U+DD62", "U+DD63", "U+DD64", "U+DD65", "U+DD66",
          "U+DD67", "U+DD68", "U+DD69", "U+DD70", "U+DD71", "U+DD72", "U+DD73",
          "U+DD74", "U+DD75", "U+DD76", "U+DD77", "U+DD78", "U+DD79", "U+DD7A",
          "U+DD7B", "U+DD7C", "U+DD7D", "U+DD7E", "U+DD7F", "U+DD80", "U+DD81",
          "U+DD82", "U+DD83", "U+DD84", "U+DD85", "U+DD86", "U+DD87", "U+DD88",
          "U+DD89" }

\* the code units h, l are the surrogates of a character of the table
InTable(table, h, l) == h \in DOMAIN table /\ l \in table[h]

SupplementaryLetter(h, l) ==
    h \in DOMAIN SupplementaryLowerOf /\ l \in DOMAIN SupplementaryLowerOf[h]

SupplementaryCased(h, l) ==
    \/ SupplementaryLetter(h, l)
    \/ /\ h \in DOMAIN SupplementaryLowerCase
       /\ \E n \in DOMAIN SupplementaryLowerCase[h] : SupplementaryLowerCase[h][n] = l
    \/ InTable(SupplementaryOtherCased, h, l)

\* the characters that end at position k of s are case-ignorable characters
\* that follow a cased letter
RECURSIVE AfterCasedLetter(_, _)
AfterCasedLetter(s, k) ==
    IF k < 1 THEN FALSE
    ELSE IF k > 1 /\ InTable(SupplementaryCaseIgnorable, s[k - 1], s[k])
    THEN AfterCasedLetter(s, k - 2)
    ELSE IF k > 1 /\ SupplementaryCased(s[k - 1], s[k]) THEN TRUE
    ELSE IF s[k] \in CaseIgnorable THEN AfterCasedLetter(s, k - 1)
    ELSE s[k] \in Cased

\* the characters that start at position k of s are case-ignorable characters
\* followed by a cased letter
RECURSIVE BeforeCasedLetter(_, _)
BeforeCasedLetter(s, k) ==
    IF k > Len(s) THEN FALSE
    ELSE IF k < Len(s) /\ InTable(SupplementaryCaseIgnorable, s[k], s[k + 1])
    THEN BeforeCasedLetter(s, k + 2)
    ELSE IF k < Len(s) /\ SupplementaryCased(s[k], s[k + 1]) THEN TRUE
    ELSE IF s[k] \in CaseIgnorable THEN BeforeCasedLetter(s, k + 1)
    ELSE s[k] \in Cased

\* Final_Sigma: the sigma at position k of s ends a word
FinalSigma(s, k) == AfterCasedLetter(s, k - 1) /\ ~BeforeCasedLetter(s, k + 1)

\* the lower-case form of the code unit at position k of s, when it is one
\* code unit
LowerCaseAt(s, k) ==
    IF s[k] \in Letters
    THEN IF s[k] = "Σ" /\ FinalSigma(s, k) THEN "ς" ELSE LowerOf[s[k]]
    ELSE IF k > 1 /\ SupplementaryLetter(s[k - 1], s[k])
    THEN SupplementaryLowerOf[s[k - 1]][s[k]]
    ELSE s[k]

\* the same from position k on; the lower-case form of U+0130 is two code
\* units
RECURSIVE LowerCaseFrom(_, _)
LowerCaseFrom(s, k) ==
    IF k > Len(s) THEN << >>
    ELSE (IF s[k] = "U+0130" THEN << "i", "U+0307" >> ELSE << LowerCaseAt(s, k) >>)
         \o LowerCaseFrom(s, k + 1)

\* String.prototype.toLowerCase
ToLowerCase(s) ==
    IF \E k \in 1..Len(s) : s[k] = "U+0130"
    THEN LowerCaseFrom(s, 1)
    ELSE [k \in 1..Len(s) |-> LowerCaseAt(s, k)]

Likes == << "l", "i", "k", "e", "s" >>
Comments == << "c", "o", "m", "m", "e", "n", "t", "s" >>
Followers == << "f", "o", "l", "l", "o", "w", "e", "r", "s" >>
All == << "a", "l", "l" >>
Pending == << "P", "e", "n", "d", "i", "n", "g" >>

VALID_SOURCE_MODES == {Likes, Comments, Followers, All}

\* !s || s.trim() === ''
Blank(s) == s = Undefined \/ s = << >> \/ Trim(s) = << >>

\* the errors validateEnv collects.  e.required stands for INSTAGRAM_USERNAME,
\* GOOGLE_SHEET_ID, GOOGLE_SHEET_NAME and the credentials together: each is set
\* and the credentials parse as JSON; MAX_DRAFT is checked like MAX_PROCCESS
\* and is taken to be valid.
EnvErrors(e, draftMessage) ==
    {}  \cup (IF ~e.required THEN {"required"} ELSE {})
        \cup (IF Blank(draftMessage) THEN {"DRAFT_MESSAGE"} ELSE {})
        \cup (IF Blank(e.activateStatus) THEN {"ACTIVATE_STATUS"} ELSE {})
        \cup (IF Blank(e.sourceMode)
                  \/ ToLowerCase(Trim(e.sourceMode)) \notin VALID_SOURCE_MODES
              THEN {"SOURCE_MODE"} ELSE {})
        \cup (IF e.maxProcess < 1 THEN {"MAX_PROCCESS"} ELSE {})

(* ----------------------------- sheetsManager.js ----------------------- *)
\* the JSON values of the credentials that validateEnv accepts: a service
\* account, with client_email and private_key, or an object without them
ServiceAccount == "service account"
EmptyObject == "{}"

\* lines 76-87 of loadCredentials: the parsed credentials are not an object
\* with the strings client_email and private_key
LoadCredentialsThrows(e) == e.credentials # ServiceAccount

\* A data row holds the cells of the columns Username, Source and Status, and
\* in `others` whether one of its other cells (Date Added, Date Sent, Message)
\* is filled: "blank" when each is empty or blank, "filled" otherwise.
\* !cell || cell.trim() === ''
BlankCell(cell) == cell = << >> \/ Trim(cell) = << >>

\* row.every(cell => !cell || cell.trim() === '')
IsBlankRow(row) ==
    /\ row.others = "blank"
    /\ BlankCell(row.username) /\ BlankCell(row.source) /\ BlankCell(row.status)

\* the structured row of the data row at 0-based position index
StructuredRow(row, index) ==
    [rowIndex |-> index + 2,
     username |-> ToLowerCase(Trim(row.username)),
     source   |-> Trim(row.source),
     status   |-> Trim(row.status)]

\* a variant of StructuredRowsFrom that numbers the rows after dropping the
\* blank ones
RECURSIVE StructuredRowsCompacted(_, _)
StructuredRowsCompacted(dataRows, index) ==
    IF index >= Len(dataRows) THEN << >>
    ELSE IF IsBlankRow(dataRows[index + 1])
         THEN StructuredRowsCompacted(SubSeq(dataRows, 1, index)
                                        \o SubSeq(dataRows, index + 2, Len(dataRows)),
                                      index)
         ELSE << StructuredRow(dataRows[index + 1], index) >>
              \o StructuredRowsCompacted(dataRows, index + 1)

RECURSIVE StructuredRowsFrom(_, _)
StructuredRowsFrom(dataRows, index) ==
    IF index >= Len(dataRows) THEN << >>
    ELSE (IF IsBlankRow(dataRows[index + 1]) THEN << >>
          ELSE << StructuredRow(dataRows[index + 1], index) >>)
         \o StructuredRowsFrom(dataRows, index + 1)

\* loadDatabaseRows over the data rows the sheet holds
LoadDatabaseRows(dataRows) == StructuredRowsFrom(dataRows, 0)

(* ----------------------------- databaseLoader.js ---------------------- *)
\* validateActivateStatus, validateSourceMode or validateMaxProcess throws
LoaderThrows(e) ==
    \/ e.activateStatus = Undefined \/ e.activateStatus = << >>
    \/ e.sourceMode = Undefined \/ e.sourceMode = << >>
    \/ ToLowerCase(Trim(e.sourceMode)) \notin VALID_SOURCE_MODES
    \/ e.maxProcess < 1

\* a variant of StatusFilter that ignores the case of the status
StatusFilterAnyCase(allRows, activateStatus) ==
    LET Match(row) == ToLowerCase(Trim(row.status)) = ToLowerCase(activateStatus)
    IN  SelectSeq(allRows, Match)

\* stage 2: rows whose status is activateStatus
StatusFilter(allRows, activateStatus) ==
    LET Match(row) == Trim(row.status) = activateStatus
    IN  SelectSeq(allRows, Match)

\* stage 3: rows whose source is sourceMode, every row when it is 'all'
SourceFilter(rows, sourceMode) ==
    IF sourceMode = All THEN rows
    ELSE LET Match(row) == ToLowerCase(Trim(row.source)) = sourceMode
         IN  SelectSeq(rows, Match)

RECURSIVE DeduplicateFrom(_, _, _)
DeduplicateFrom(rows, k, seenUsernames) ==
    IF k > Len(rows) THEN << >>
    ELSE LET username == rows[k].username
             normalizedUsername == Trim(ToLowerCase(username))
         IN  IF username = << >> \/ Trim(username) = << >>
                 \/ normalizedUsername \in seenUsernames
             THEN DeduplicateFrom(rows, k + 1, seenUsernames)
             ELSE << rows[k] >>
                  \o DeduplicateFrom(rows, k + 1, seenUsernames \cup {normalizedUsername})

\* stage 4: the first row of every username
Deduplicate(rows) == DeduplicateFrom(rows, 1, {})


\* a variant of LoadFilteredDatabase that applies the cap to the filtered rows,
\* before the deduplication
LoadFilteredDatabaseCapBeforeDedup(allRows, e) ==
    LET activateStatus == Trim(e.activateStatus)
        sourceMode == ToLowerCase(Trim(e.sourceMode))
        statusFiltered == StatusFilter(allRows, activateStatus)
        sourceFiltered == SourceFilter(statusFiltered, sourceMode)
    IN  Deduplicate(Slice(sourceFiltered, 0, e.maxProcess))

\* loadFilteredDatabase over the rows loadDatabaseRows returned
LoadFilteredDatabase(allRows, e) ==
    LET activateStatus == Trim(e.activateStatus)
        sourceMode == ToLowerCase(Trim(e.sourceMode))
        statusFiltered == StatusFilter(allRows, activateStatus)
        sourceFiltered == SourceFilter(statusFiltered, sourceMode)
        deduplicated == Deduplicate(sourceFiltered)
    IN  Slice(deduplicated, 0, e.maxProcess)

(* ------------------------- main_messageDrafter.js --------------------- *)
Null == << "null" >>

UserNames == << << "u", "1" >>, << "u", "2" >>, << "u", "3" >>, << "u", "4" >>,
               << "u", "5" >>, << "u", "6" >> >>

\* a sheet of n accounts, each entered twice: data rows 2k-1 and 2k hold account k
RunDatabase(n) ==
    [k \in 1..(2 * n) |->
        [username |-> UserNames[(k + 1) \div 2], source |-> Likes, status |-> Pending,
         others |-> "blank"]]

\* the rows loadFilteredDatabase returns for RunDatabase(n): distinct usernames,
\* increasing sheet rows
RowsOf(n) ==
    [k \in 1..n |-> [rowIndex |-> 2 * k, username |-> UserNames[k],
                     source |-> Likes, status |-> Pending]]

\* process.env of the runs over several accounts, valid or not
RunEnv == [activateStatus |-> Pending, sourceMode |-> Likes, maxProcess |-> MaxRows,
           required |-> TRUE, credentials |-> ServiceAccount]

\* the same with credentials that validateEnv accepts and loadCredentials rejects
RunEnvEmptyCredentials == [RunEnv EXCEPT !.credentials = EmptyObject]

RunEnvs ==
    { RunEnv, RunEnvEmptyCredentials, [RunEnv EXCEPT !.required = FALSE],
      [RunEnv EXCEPT !.activateStatus = << " " >>],
      [RunEnv EXCEPT !.sourceMode = << "x" >>], [RunEnv EXCEPT !.maxProcess = 0] }

\* a DRAFT_MESSAGE that validateEnv rejects
BlankMessage == << " " >>

SheetRows == 2..(2 * MaxRows + 1)

NoDraft == [success |-> FALSE, firstName |-> Undefined, message |-> Undefined,
            typedText |-> Undefined]

NoWrite == [rowIndex |-> 0, message |-> Null, status |-> "none", ok |-> FALSE]

NoLocator == [matching |-> {}, tried |-> 0]

\* one call of processUser: the function, how it ended and the error it gave
Call(fn, out, error) == [fn |-> fn, out |-> out, error |-> error]

\* dmResult.error values openDMController may report with success = false
OpenerErrors == {"null", "", "Message button not found"}

\* `Failed to open DM: ${dmResult.error || 'Unknown error'}`
FailedToOpenDM(error) ==
    IF error = "null" \/ error = ""
    THEN "Failed to open DM: Unknown error"
    ELSE "Failed to open DM: Message button not found"

\* conversationResult.messageCount values of an existing conversation
MessageCounts == {1, 3}

\* `Existing conversation detected (${conversationResult.messageCount} messages)`
ExistingConversation(messageCount) ==
    IF messageCount = 1
    THEN "Existing conversation detected (1 messages)"
    ELSE "Existing conversation detected (3 messages)"

\* what navigateToProfile rejects with: the error of the login form, or what
\* page.goto, the delay or the query of the login form rejected with
NavigationErrors ==
    {"Navigation fault", "", "null", "undefined",
     "Not logged in - redirected to login page. Run loginSeeder.js first."}

NoRow == [username |-> << >>, rowIndex |-> 0]

NewResult(row) ==
    [username |-> row.username, rowIndex |-> row.rowIndex, success |-> FALSE,
     skipped |-> FALSE, error |-> "null", message |-> Null]

\* the branch of run() a result takes
OutcomeOf(r) ==
    IF r.skipped THEN "Skipped" ELSE IF r.success THEN "Drafted" ELSE "Failed"

\* the state in which run() starts
InitWith(flags, envs, templates, databases, names, views) ==
    /\ pc = "validate"
    /\ dryRun \in flags
    /\ processEnv \in envs
    /\ envDraftMessage \in templates
    /\ maxDraft \in 1..MaxDraftCap
    /\ database \in databases
    /\ reads = 0
    /\ browser = "null"
    /\ reported = << >>
    /\ filteredRows = << >>
    /\ profileNames = names
    /\ site = views
    /\ runs = 1
    /\ draftedEarlier = {}
    /\ i = 1
    /\ draftedCount = 0 /\ skippedCount = 0 /\ errorCount = 0
    /\ tabs = << >>
    /\ stage = << >>
    /\ closeResult = "none"
    /\ sheet = [r \in SheetRows |-> "Pending"]
    /\ lastWrite = NoWrite
    /\ result = NewResult(NoRow)
    /\ userError = "none"
    /\ draftingSucceeded = FALSE
    /\ hasConversation = "none"
    /\ firstName = Undefined /\ nameFound = FALSE /\ message = Undefined
    /\ input = 0 /\ typedText = Undefined
    /\ draftResult = NoDraft
    /\ field = << >> /\ keystrokes = << >>
    /\ pageOps = {}
    /\ draftCalls = 0
    /\ calls = << >>
    /\ locator = NoLocator

\* runs over up to MaxRows accounts
Init == InitWith(BOOLEAN, RunEnvs, RunTemplates \cup {BlankMessage},
                 { RunDatabase(n) : n \in 1..MaxRows }, RunFirstNames, RunView)

\* runs over one account, with every template and first name of the bounds and
\* MAX_DRAFT = 1
InitDraft ==
    /\ InitWith(BOOLEAN, {RunEnv, RunEnvEmptyCredentials},
                Templates \cup BoundaryTemplates \cup {BlankMessage},
                {RunDatabase(1)}, FirstNames, AnyView)
    /\ maxDraft = 1

\* the cells of the sheets of the loader runs: usernames that differ in case
\* and in the whitespace around them, a source and a status with whitespace
\* around them
UsernameCells == { << "a" >>, << "A", " " >>, << "Σ" >> }
LikesCell == << "L", "i", "k", "e", "s", " " >>
PendingCell == << " " >> \o Pending

\* a data row with a username, the source 'Likes' and the status 'Pending'
AccountRow(username) ==
    [username |-> username, source |-> LikesCell, status |-> PendingCell,
     others |-> "blank"]

BlankRow == [username |-> << >>, source |-> << >>, status |-> << >>,
             others |-> "blank"]

\* a row with nothing in Username, Source and Status and a filled other cell
OtherCellRow == [BlankRow EXCEPT !.others = "filled"]

\* the data rows of the sheets of the loader runs: a row of every username, a
\* row with another source, a row whose status differs in case, a row without
\* username, a blank row and a row with a filled other cell only
DataRows ==
    { AccountRow(username) : username \in UsernameCells }
        \cup { [AccountRow(<< "a" >>) EXCEPT !.source = Comments],
               [AccountRow(<< "a" >>) EXCEPT !.status = ToLowerCase(Pending)],
               AccountRow(<< >>), BlankRow, OtherCellRow }

\* process.env of the loader runs, the last with credentials that
\* loadCredentials rejects
LoadEnvs ==
    [activateStatus : { Pending, Pending \o << " " >> },
     sourceMode : { All, << " ", "L", "i", "k", "e", "s" >> },
     maxProcess : 1..MaxProcessCap,
     required : {TRUE},
     credentials : {ServiceAccount}]
        \cup { [RunEnv EXCEPT !.credentials = EmptyObject] }

\* dry runs over every sheet of up to MaxDataRows data rows, with MAX_DRAFT = 1
InitLoad ==
    /\ InitWith({TRUE}, LoadEnvs, {<< "H", "i" >>},
                SeqsUpTo(DataRows, MaxDataRows), {Undefined}, RunView)
    /\ maxDraft = 1

\* what the loop of run() leaves alone
config == << dryRun, processEnv, envDraftMessage, maxDraft, database, reads, browser,
            reported, filteredRows, profileNames, site, history >>
counters == << draftedCount, skippedCount, errorCount >>
\* how processUser ended: the result it returned, or the error it rejected with
outcome == << result, userError >>
runVars == << config, i, counters, tabs, stage, closeResult, sheet, lastWrite,
              draftingSucceeded >>
draftLocals == << firstName, nameFound, message, input, typedText, draftResult,
                  keystrokes >>
draftVars == << draftLocals, field, draftCalls, hasConversation, calls, locator >>

\* processUser returns r to run()
Return(r) ==
    /\ result' = r
    /\ pc' = "persist"
    /\ UNCHANGED userError

\* processUser rejects with an error whose message is e, and run() catches it
Reject(e) ==
    /\ userError' = e
    /\ pc' = "caught"
    /\ UNCHANGED result

\* a variant of ProcessDraftResult that also reports the message of a failed draft
ProcessDraftResultKeepMessage(dr) ==
    IF ~dr.success
    THEN Return([result EXCEPT !.error = "Failed to draft message: Unknown error",
                               !.message = dr.message])
    ELSE Return([result EXCEPT !.success = TRUE, !.message = dr.message])

\* a variant of ProcessDraftResult that calls draftMessage again after a failure
ProcessDraftResultRetry(dr) ==
    IF ~dr.success
    THEN IF draftCalls < 2
         THEN pc' = "draftStart" /\ UNCHANGED outcome
         ELSE Return([result EXCEPT !.error = "Failed to draft message: Unknown error"])
    ELSE Return([result EXCEPT !.success = TRUE, !.message = dr.message])

\* lines 117-127: draftMessage returned dr to processUser
ProcessDraftResult(dr) ==
    IF ~dr.success
    THEN Return([result EXCEPT !.error = "Failed to draft message: Unknown error"])
    ELSE Return([result EXCEPT !.success = TRUE, !.message = dr.message])

DraftReturn(dr) ==
    /\ draftResult' = dr
    /\ ProcessDraftResult(dr)

\* A call of the environment rejects with an Error, written here as its message
\* ("" for an Error with an empty message), or with a value that is no object:
\* "null" or "undefined".
NonErrors == {"null", "undefined"}

\* the message of the TypeError that reading `.message` of null or undefined throws
TypeErrorMessage(v) ==
    IF v = "null" THEN "Cannot read properties of null (reading 'message')"
    ELSE "Cannot read properties of undefined (reading 'message')"

\* what a call made by processUser may reject with
Thrown(fault) == {fault, ""} \cup NonErrors

\* line 130: error.message || String(error)
CaughtMessage(err) == IF err = "" THEN "Error" ELSE err

\* the catch block of processUser, lines 129-133: reading error.message of a
\* value that is no object throws, and processUser rejects with that TypeError
ProcessCatch(err) ==
    IF err \in NonErrors
    THEN Reject(TypeErrorMessage(err))
    ELSE Return([result EXCEPT !.error = CaughtMessage(err)])

\* the catch block of draftMessage, lines 116-119: it reads err.message, so a
\* value that is no object makes draftMessage reject with a TypeError, which
\* the catch of processUser turns into a result
DraftCatch(err) ==
    IF err \in NonErrors
    THEN /\ draftResult' = draftResult
         /\ ProcessCatch(TypeErrorMessage(err))
    ELSE DraftReturn([success |-> FALSE, firstName |-> Undefined,
                      message |-> Undefined, typedText |-> Undefined])

loopVars == << i, counters, closeResult, sheet, lastWrite, draftingSucceeded,
              draftVars, outcome, pageOps >>

\* a variant of ValidateEnv that goes on after logging the errors
ValidateEnvLenient ==
    /\ pc = "validate"
    /\ pc' = "loadRows"
    /\ UNCHANGED << config, tabs, stage, loopVars >>

\* lines 150-164: validateEnv throws when it collected an error
ValidateEnv ==
    /\ pc = "validate"
    /\ pc' = IF EnvErrors(processEnv, envDraftMessage) # {} THEN "fatal" ELSE "loadRows"
    /\ UNCHANGED << config, tabs, stage, loopVars >>

\* lines 166-175: loadDatabaseRows throws in loadCredentials before it reads
\* the sheet, or the rows are read, or the read throws
LoadAllRows ==
    /\ pc = "loadRows"
    /\ IF LoadCredentialsThrows(processEnv)
       THEN pc' = "fatal" /\ UNCHANGED reads
       ELSE /\ reads' = reads + 1
            /\ \/ pc' = "filter"
               \/ pc' = "fatal"
    /\ UNCHANGED << dryRun, processEnv, envDraftMessage, maxDraft, database, browser,
                    reported, filteredRows, profileNames, site, history, tabs, stage, loopVars >>

\* lines 177-191: loadFilteredDatabase validates its variables, reads the
\* rows again and filters them; run() returns when no row is left
LoadFiltered ==
    /\ pc = "filter"
    /\ IF LoaderThrows(processEnv) \/ LoadCredentialsThrows(processEnv)
       THEN pc' = "fatal" /\ UNCHANGED << reads, filteredRows, tabs, stage >>
       ELSE /\ reads' = reads + 1
            /\ \/ /\ filteredRows' = LoadFilteredDatabase(LoadDatabaseRows(database), processEnv)
                  /\ tabs' = [k \in 1..Len(filteredRows') |-> "none"]
                  /\ stage' = [k \in 1..Len(filteredRows') |-> "pending"]
                  /\ pc' = IF Len(filteredRows') = 0 THEN "returned"
                           ELSE IF dryRun THEN "report" ELSE "browser"
               \/ /\ pc' = "fatal"
                  /\ UNCHANGED << filteredRows, tabs, stage >>
    /\ UNCHANGED << dryRun, processEnv, envDraftMessage, maxDraft, database, browser,
                    reported, profileNames, site, history, loopVars >>

\* the rows a dry run lists
DryRunRows(rows, max) == Slice(rows, 0, max)

\* a variant of DryRunReport that lists the rows and goes on with the run
DryRunReportThenRun ==
    /\ pc = "report"
    /\ reported' = DryRunRows(filteredRows, maxDraft)
    /\ pc' = "browser"
    /\ UNCHANGED << dryRun, processEnv, envDraftMessage, maxDraft, database, reads, browser,
                    filteredRows, profileNames, site, history, tabs, stage, loopVars >>

\* lines 194-202: the dry run lists the rows and returns
DryRunReport ==
    /\ pc = "report"
    /\ reported' = DryRunRows(filteredRows, maxDraft)
    /\ pc' = "returned"
    /\ UNCHANGED << dryRun, processEnv, envDraftMessage, maxDraft, database, reads, browser,
                    filteredRows, profileNames, site, history, tabs, stage, loopVars >>

\* lines 204-222: the browser is launched and the session checked on a
\* temporary page; a fault before or after the launch ends the run
InitializeBrowser ==
    /\ pc = "browser"
    /\ \/ pc' = "loop" /\ browser' = "launched"
       \/ pc' = "fatal" /\ browser' \in {"null", "launched"}
    /\ UNCHANGED << dryRun, processEnv, envDraftMessage, maxDraft, database, reads,
                    reported, filteredRows, profileNames, site, history, tabs, stage, loopVars >>

\* the condition of the for loop
LoopCondition == i <= Len(filteredRows) /\ draftedCount < maxDraft

\* a variant of LoopEnter that creates the tabs of all remaining accounts at once
LoopEnterAhead ==
    /\ pc = "loop"
    /\ LoopCondition
    /\ \/ /\ tabs' = [k \in 1..Len(tabs) |-> IF k >= i THEN "open" ELSE tabs[k]]
          /\ stage' = [k \in 1..Len(stage) |-> IF k >= i THEN "allocated" ELSE stage[k]]
          /\ pc' = "delay"
       \/ /\ pc' = "fatal"
          /\ UNCHANGED << tabs, stage >>
    /\ UNCHANGED << config, i, counters, closeResult, sheet, lastWrite,
                    draftingSucceeded, draftVars, outcome, pageOps >>

LoopEnter ==
    /\ pc = "loop"
    /\ LoopCondition
    /\ \/ /\ tabs' = [tabs EXCEPT ![i] = "open"]
          /\ stage' = [stage EXCEPT ![i] = "allocated"]
          /\ pc' = "delay"
       \/ /\ pc' = "fatal"
          /\ UNCHANGED << tabs, stage >>
    /\ UNCHANGED << config, i, counters, closeResult, sheet, lastWrite,
                    draftingSucceeded, draftVars, outcome, pageOps >>

LoopExit ==
    /\ pc = "loop"
    /\ ~LoopCondition
    /\ pc' = "summary"
    /\ UNCHANGED << runVars, draftVars, outcome, pageOps >>

\* line 244: the delay before the work on the new tab; it is outside the try of
\* the iteration, so a delay that rejects ends the run
PreWorkDelay ==
    /\ pc = "delay"
    /\ \/ /\ result' = NewResult(filteredRows[i])
          /\ pc' = "navigate"
       \/ /\ pc' = "fatal"
          /\ UNCHANGED result
    /\ UNCHANGED << runVars, draftVars, userError, pageOps >>

\* a variant of Navigate that goes on to open the thread after a failure
NavigateNoShortCircuit ==
    /\ pc = "navigate"
    /\ pageOps' = pageOps \cup {"goto"}
    /\ \/ /\ pc' = "openDM"
          /\ calls' = Append(calls, Call("navigateToProfile", "ok", "null"))
          /\ UNCHANGED outcome
       \/ \E err \in NavigationErrors :
             /\ calls' = Append(calls, Call("navigateToProfile", "throw", err))
             /\ result' = [result EXCEPT !.error = err]
             /\ pc' = "openDM"
             /\ UNCHANGED userError
    /\ UNCHANGED << runVars, draftLocals, field, draftCalls, hasConversation, locator >>

\* lines 81 and 47-61: page.goto, the delay and the login check of
\* navigateToProfile; its throws are caught by processUser (lines 129-133)

Navigate ==
    /\ pc = "navigate"
    /\ pageOps' = pageOps \cup {"goto"}
    /\ \/ /\ pc' = "openDM"
          /\ calls' = Append(calls, Call("navigateToProfile", "ok", "null"))
          /\ UNCHANGED outcome
       \/ \E err \in NavigationErrors :
             /\ calls' = Append(calls, Call("navigateToProfile", "throw", err))
             /\ ProcessCatch(err)
    /\ UNCHANGED << runVars, draftLocals, field, draftCalls, hasConversation, locator >>

\* a variant of OpenDM that goes on to the conversation probe after a failure
OpenDMFallThrough ==
    /\ pc = "openDM"
    /\ \/ /\ pc' = "probe"
          /\ calls' = Append(calls, Call("openDMController", "ok", "null"))
          /\ UNCHANGED outcome
       \/ \E error \in OpenerErrors :
             /\ calls' = Append(calls, Call("openDMController", "false", error))
             /\ result' = [result EXCEPT !.error = FailedToOpenDM(error)]
             /\ pc' = "probe"
             /\ UNCHANGED userError
       \/ \E err \in Thrown("openDMController fault") :
             /\ calls' = Append(calls, Call("openDMController", "throw", err))
             /\ ProcessCatch(err)
    /\ UNCHANGED << runVars, draftLocals, field, draftCalls, hasConversation, locator,
                    pageOps >>

\* lines 85-98: openDMController returns success, returns a failure with its
\* error, or throws; after a success the delay of line 98 passes or rejects

OpenDM ==
    /\ pc = "openDM"
    /\ \/ /\ calls' = Append(calls, Call("openDMController", "ok", "null"))
          /\ \/ /\ pc' = "probe"
                /\ UNCHANGED outcome
             \/ \E err \in Thrown("humanDelay fault") : ProcessCatch(err)
       \/ \E error \in OpenerErrors :
             /\ calls' = Append(calls, Call("openDMController", "false", error))
             /\ Return([result EXCEPT !.error = FailedToOpenDM(error)])
       \/ \E err \in Thrown("openDMController fault") :
             /\ calls' = Append(calls, Call("openDMController", "throw", err))
             /\ ProcessCatch(err)
    /\ UNCHANGED << runVars, draftLocals, field, draftCalls, hasConversation, locator,
                    pageOps >>

\* a variant of Probe whose existing-conversation branch does not return
ProbeFallThrough ==
    /\ pc = "probe"
    /\ \/ \E messageCount \in MessageCounts :
             /\ hasConversation' = "true"
             /\ calls' = Append(calls, Call("detectExistingConversation", "true",
                                            "null"))
             /\ result' = [result EXCEPT !.skipped = TRUE,
                                         !.error = ExistingConversation(messageCount)]
             /\ pc' = "draftStart"
             /\ UNCHANGED userError
       \/ /\ hasConversation' = "false"
          /\ calls' = Append(calls, Call("detectExistingConversation", "false", "null"))
          /\ pc' = "draftStart"
          /\ UNCHANGED outcome
       \/ \E err \in Thrown("detectExistingConversation fault") :
             /\ calls' = Append(calls, Call("detectExistingConversation", "throw", err))
             /\ ProcessCatch(err)
             /\ UNCHANGED hasConversation
    /\ UNCHANGED << runVars, draftLocals, field, draftCalls, pageOps, locator >>

\* lines 100-111: detectExistingConversation reports a conversation, reports
\* none, or throws
Probe ==
    /\ pc = "probe"
    /\ \/ \E messageCount \in MessageCounts :
             /\ hasConversation' = "true"
             /\ calls' = Append(calls, Call("detectExistingConversation", "true",
                                            "null"))
             /\ Return([result EXCEPT !.skipped = TRUE,
                                      !.error = ExistingConversation(messageCount)])
       \/ /\ hasConversation' = "false"
          /\ calls' = Append(calls, Call("detectExistingConversation", "false", "null"))
          /\ pc' = "draftStart"
          /\ UNCHANGED outcome
       \/ \E err \in Thrown("detectExistingConversation fault") :
             /\ calls' = Append(calls, Call("detectExistingConversation", "throw", err))
             /\ ProcessCatch(err)
             /\ UNCHANGED hasConversation
    /\ UNCHANGED << runVars, draftLocals, field, draftCalls, pageOps, locator >>

\* lines 115 and 19-47: draftMessage is called; extractFirstName throws, or
\* reports a name, and the message is composed
DraftStart ==
    /\ pc = "draftStart"
    /\ draftCalls' = draftCalls + 1
    /\ calls' = Append(calls, Call("draftMessage", "called", "null"))
    /\ \/ \E err \in site.faults :
             /\ DraftCatch(err)
             /\ UNCHANGED << firstName, nameFound, message >>
       \/ \E fn \in profileNames, nf \in BOOLEAN :
             /\ firstName' = fn
             /\ nameFound' = nf
             /\ IF ComposeThrows(fn, nf)
                THEN DraftCatch("TypeError") /\ UNCHANGED message
                ELSE /\ message' = ComposeMessage(BaseMessage(envDraftMessage), fn, nf)
                     /\ pc' = "locate"
                     /\ UNCHANGED << outcome, draftResult >>
    /\ UNCHANGED << runVars, input, typedText, field, keystrokes, pageOps,
                    hasConversation, locator >>

\* the number of selectors the loop of lines 61-67 queries
Queried(matching) ==
    IF FirstMatch(matching) = 0 THEN NumSelectors ELSE FirstMatch(matching)

\* lines 60-72: the selectors are queried in order until one matches; a query
\* may throw instead of answering
Locate ==
    /\ pc = "locate"
    /\ pageOps' = pageOps \cup {"query"}
    /\ \E matching \in site.matchings :
          \/ /\ input' = FirstMatch(matching)
             /\ locator' = [matching |-> matching, tried |-> Queried(matching)]
             /\ IF input' = 0
                THEN /\ DraftReturn([success |-> FALSE, firstName |-> firstName,
                                     message |-> message, typedText |-> Undefined])
                     /\ UNCHANGED field
                ELSE /\ pc' = "focus"
                     /\ field' \in site.texts
                     /\ UNCHANGED << outcome, draftResult >>
          \/ \E k \in 1..Queried(matching), err \in site.faults :
                /\ locator' = [matching |-> matching, tried |-> k]
                /\ DraftCatch(err)
                /\ UNCHANGED << input, field >>
    /\ UNCHANGED << runVars, firstName, nameFound, message, typedText,
                    keystrokes, draftCalls, hasConversation, calls >>

\* the page operations of lines 76-81, in the order they are issued
FocusOps == << "click", "down:Control", "press:A", "up:Control", "press:Backspace" >>

\* lines 74-82: the input is clicked and its text selected and deleted; a
\* fault leaves the operations issued up to it: none when the first delay
\* rejects, all of them when the last one throws
FocusClear ==
    /\ pc = "focus"
    /\ locator' = NoLocator
    /\ \/ /\ pageOps' = pageOps \cup { FocusOps[k] : k \in 1..Len(FocusOps) }
          /\ field' = << >>
          /\ keystrokes' = << >>
          /\ pc' = IF FirstTen(message) # << >> THEN "type"
                   ELSE IF Remainder(message) # << >> THEN "bulk" ELSE "dispatch"
          /\ UNCHANGED << outcome, draftResult >>
       \/ \E n \in 0..Len(FocusOps), err \in site.faults :
             /\ pageOps' = pageOps \cup { FocusOps[k] : k \in 1..n }
             /\ DraftCatch(err)
             /\ UNCHANGED << field, keystrokes >>
    /\ UNCHANGED << runVars, firstName, nameFound, message, input, typedText,
                    draftCalls, hasConversation, calls >>

\* lines 88-91: one character of firstTen is typed after a delay; the delay may
\* reject before the keystroke is issued, or the keystroke may throw
TypeChar ==
    /\ pc = "type"
    /\ Len(keystrokes) < Len(FirstTen(message))
    /\ \/ LET ch == FirstTen(message)[Len(keystrokes) + 1]
          IN  /\ pageOps' = pageOps \cup {"type"}
              /\ keystrokes' = Append(keystrokes, ch)
              /\ field' = Append(field, ch)
              /\ pc' = IF Len(keystrokes') < Len(FirstTen(message)) THEN "type"
                       ELSE IF Remainder(message) # << >> THEN "bulk" ELSE "dispatch"
              /\ UNCHANGED << outcome, draftResult >>
       \/ \E issued \in BOOLEAN, err \in site.faults :
             /\ pageOps' = IF issued THEN pageOps \cup {"type"} ELSE pageOps
             /\ DraftCatch(err)
             /\ UNCHANGED << field, keystrokes >>
    /\ UNCHANGED << runVars, firstName, nameFound, message, input, typedText,
                    draftCalls, hasConversation, calls, locator >>

\* lines 92-95: the remainder is inserted at once after a delay; the delay may
\* reject before the insertion is issued, or the insertion may throw
BulkInsert ==
    /\ pc = "bulk"
    /\ \/ /\ pageOps' = pageOps \cup {"insertText"}
          /\ field' = field \o Remainder(message)
          /\ pc' = "dispatch"
          /\ UNCHANGED << outcome, draftResult >>
       \/ \E issued \in BOOLEAN, err \in site.faults :
             /\ pageOps' = IF issued THEN pageOps \cup {"insertText"} ELSE pageOps
             /\ DraftCatch(err)
             /\ UNCHANGED field
    /\ UNCHANGED << runVars, firstName, nameFound, message, input, typedText,
                    keystrokes, draftCalls, hasConversation, calls, locator >>

\* a variant of Dispatch that submits the text with Enter
DispatchAndSubmit ==
    /\ pc = "dispatch"
    /\ \/ /\ pageOps' = pageOps \cup {"dispatch:input", "dispatch:change", "press:Enter"}
          /\ pc' = "verify"
          /\ UNCHANGED << outcome, draftResult >>
       \/ \E err \in site.faults :
             /\ DraftCatch(err)
             /\ UNCHANGED pageOps
    /\ UNCHANGED << runVars, firstName, nameFound, message, input, typedText,
                    field, keystrokes, draftCalls, hasConversation, calls, locator >>

\* the events dispatched by the evaluate of lines 98-101, in order
DispatchOps == << "dispatch:input", "dispatch:change" >>

\* lines 97-101: the input and change events are dispatched on the element;
\* an evaluate that throws has dispatched none, the first or both
Dispatch ==
    /\ pc = "dispatch"
    /\ \/ /\ pageOps' = pageOps \cup { DispatchOps[k] : k \in 1..Len(DispatchOps) }
          /\ pc' = "verify"
          /\ UNCHANGED << outcome, draftResult >>
       \/ \E n \in 0..Len(DispatchOps), err \in site.faults :
             /\ pageOps' = pageOps \cup { DispatchOps[k] : k \in 1..n }
             /\ DraftCatch(err)
    /\ UNCHANGED << runVars, firstName, nameFound, message, input, typedText,
                    field, keystrokes, draftCalls, hasConversation, calls, locator >>

\* lines 103-115: after a delay the text of the element is read back and
\* compared; the delay may reject before the read is issued, or the read throw
Verify ==
    /\ pc = "verify"
    /\ \/ \E o \in Observations(field) :
             /\ pageOps' = pageOps \cup {"read"}
             /\ typedText' = o
             /\ DraftReturn([success |-> Verified(o, message), firstName |-> firstName,
                             message |-> message, typedText |-> o])
       \/ \E issued \in BOOLEAN, err \in site.faults :
             /\ pageOps' = IF issued THEN pageOps \cup {"read"} ELSE pageOps
             /\ DraftCatch(err)
             /\ UNCHANGED typedText
    /\ UNCHANGED << runVars, firstName, nameFound, message, input, field,
                    keystrokes, draftCalls, hasConversation, calls, locator >>

\* result.error || 'Unknown error', as the text written to the Message column
ErrorMessage(err) ==
    << "error", IF err = "null" \/ err = "" THEN "Unknown error" ELSE err >>

\* a variant of Write that addresses the row below
WriteNextRow(rowIndex, text, status, ok) ==
    /\ lastWrite' = [rowIndex |-> rowIndex + 1, message |-> text, status |-> status,
                     ok |-> ok]
    /\ sheet' = IF ok THEN [sheet EXCEPT ![rowIndex + 1] = status] ELSE sheet

\* a variant of Write whose update never reaches the sheet
WriteLost(rowIndex, text, status, ok) ==
    /\ lastWrite' = [rowIndex |-> rowIndex, message |-> text, status |-> status, ok |-> ok]
    /\ sheet' = sheet

\* updateDraftData(rowIndex, timestamp, text, status): the API call succeeds or throws
Write(rowIndex, text, status, ok) ==
    /\ lastWrite' = [rowIndex |-> rowIndex, message |-> text, status |-> status, ok |-> ok]
    /\ sheet' = IF ok THEN [sheet EXCEPT ![rowIndex] = status] ELSE sheet

\* a variant of Persist that never counts a draft
PersistUncounted ==
    /\ pc = "persist"
    /\ \E ok \in BOOLEAN :
          IF result.skipped
          THEN /\ Write(result.rowIndex, << >>, "Convo Exists", ok)
               /\ skippedCount' = skippedCount + 1
               /\ draftingSucceeded' = FALSE
               /\ UNCHANGED << draftedCount, errorCount >>
          ELSE IF result.success
          THEN /\ Write(result.rowIndex, result.message, "Drafted", ok)
               /\ draftedCount' = draftedCount
               /\ errorCount' = IF ok THEN errorCount ELSE errorCount + 1
               /\ draftingSucceeded' = TRUE
               /\ UNCHANGED skippedCount
          ELSE /\ Write(result.rowIndex, ErrorMessage(result.error), "Failed", ok)
               /\ errorCount' = errorCount + 1
               /\ draftingSucceeded' = FALSE
               /\ UNCHANGED << draftedCount, skippedCount >>
    /\ stage' = [stage EXCEPT ![i] = "written"]
    /\ pc' = "tab"
    \* the locals of the finished draftMessage call are gone
    /\ firstName' = Undefined /\ nameFound' = FALSE /\ message' = Undefined
    /\ input' = 0 /\ typedText' = Undefined /\ draftResult' = NoDraft
    /\ keystrokes' = << >> /\ locator' = NoLocator
    /\ UNCHANGED << config, i, tabs, closeResult, field, draftCalls,
                    hasConversation, calls, outcome, pageOps >>

\* a variant of Persist that stops the loop as soon as the cap is reached
PersistThenBreak ==
    /\ pc = "persist"
    /\ \E ok \in BOOLEAN :
          IF result.skipped
          THEN /\ Write(result.rowIndex, << >>, "Convo Exists", ok)
               /\ skippedCount' = skippedCount + 1
               /\ draftingSucceeded' = FALSE
               /\ UNCHANGED << draftedCount, errorCount >>
          ELSE IF result.success
          THEN /\ Write(result.rowIndex, result.message, "Drafted", ok)
               /\ draftedCount' = IF ok THEN draftedCount + 1 ELSE draftedCount
               /\ errorCount' = IF ok THEN errorCount ELSE errorCount + 1
               /\ draftingSucceeded' = TRUE
               /\ UNCHANGED skippedCount
          ELSE /\ Write(result.rowIndex, ErrorMessage(result.error), "Failed", ok)
               /\ errorCount' = errorCount + 1
               /\ draftingSucceeded' = FALSE
               /\ UNCHANGED << draftedCount, skippedCount >>
    /\ stage' = [stage EXCEPT ![i] = "written"]
    /\ pc' = IF draftedCount' >= maxDraft THEN "summary" ELSE "tab"
    \* the locals of the finished draftMessage call are gone
    /\ firstName' = Undefined /\ nameFound' = FALSE /\ message' = Undefined
    /\ input' = 0 /\ typedText' = Undefined /\ draftResult' = NoDraft
    /\ keystrokes' = << >> /\ locator' = NoLocator
    /\ UNCHANGED << config, i, tabs, closeResult, field, draftCalls,
                    hasConversation, calls, outcome, pageOps >>

\* a variant of Persist that also counts an error when the write of a skipped
\* account fails
PersistCountsWriteFailure ==
    /\ pc = "persist"
    /\ \E ok \in BOOLEAN :
          IF result.skipped
          THEN /\ Write(result.rowIndex, << >>, "Convo Exists", ok)
               /\ skippedCount' = skippedCount + 1
               /\ errorCount' = IF ok THEN errorCount ELSE errorCount + 1
               /\ draftingSucceeded' = FALSE
               /\ UNCHANGED draftedCount
          ELSE IF result.success
          THEN /\ Write(result.rowIndex, result.message, "Drafted", ok)
               /\ draftedCount' = IF ok THEN draftedCount + 1 ELSE draftedCount
               /\ errorCount' = IF ok THEN errorCount ELSE errorCount + 1
               /\ draftingSucceeded' = TRUE
               /\ UNCHANGED skippedCount
          ELSE /\ Write(result.rowIndex, ErrorMessage(result.error), "Failed", ok)
               /\ errorCount' = errorCount + 1
               /\ draftingSucceeded' = FALSE
               /\ UNCHANGED << draftedCount, skippedCount >>
    /\ stage' = [stage EXCEPT ![i] = "written"]
    /\ pc' = "tab"
    \* the locals of the finished draftMessage call are gone
    /\ firstName' = Undefined /\ nameFound' = FALSE /\ message' = Undefined
    /\ input' = 0 /\ typedText' = Undefined /\ draftResult' = NoDraft
    /\ keystrokes' = << >> /\ locator' = NoLocator
    /\ UNCHANGED << config, i, tabs, closeResult, field, draftCalls,
                    hasConversation, calls, outcome, pageOps >>

\* lines 249-293: the three branches on the result processUser returned
Persist ==
    /\ pc = "persist"
    /\ \E ok \in BOOLEAN :
          IF result.skipped
          THEN /\ Write(result.rowIndex, << >>, "Convo Exists", ok)
               /\ skippedCount' = skippedCount + 1
               /\ draftingSucceeded' = FALSE
               /\ UNCHANGED << draftedCount, errorCount >>
          ELSE IF result.success
          THEN /\ Write(result.rowIndex, result.message, "Drafted", ok)
               /\ draftedCount' = IF ok THEN draftedCount + 1 ELSE draftedCount
               /\ errorCount' = IF ok THEN errorCount ELSE errorCount + 1
               /\ draftingSucceeded' = TRUE
               /\ UNCHANGED skippedCount
          ELSE /\ Write(result.rowIndex, ErrorMessage(result.error), "Failed", ok)
               /\ errorCount' = errorCount + 1
               /\ draftingSucceeded' = FALSE
               /\ UNCHANGED << draftedCount, skippedCount >>
    /\ stage' = [stage EXCEPT ![i] = "written"]
    /\ pc' = "tab"
    \* the locals of the finished draftMessage call are gone
    /\ firstName' = Undefined /\ nameFound' = FALSE /\ message' = Undefined
    /\ input' = 0 /\ typedText' = Undefined /\ draftResult' = NoDraft
    /\ keystrokes' = << >> /\ locator' = NoLocator
    /\ UNCHANGED << config, i, tabs, closeResult, field, draftCalls,
                    hasConversation, calls, outcome, pageOps >>

\* userError.message || 'Unexpected error', as the text written to the Message column
UnexpectedMessage(e) == << "error", IF e = "" THEN "Unexpected error" ELSE e >>

\* lines 295-309: processUser rejected; the row is written as Failed with the
\* message of the error, and the account is counted as an error
CatchUserError ==
    /\ pc = "caught"
    /\ \E ok \in BOOLEAN :
          Write(filteredRows[i].rowIndex, UnexpectedMessage(userError), "Failed", ok)
    /\ errorCount' = errorCount + 1
    /\ draftingSucceeded' = FALSE
    /\ stage' = [stage EXCEPT ![i] = "written"]
    /\ pc' = "tab"
    \* the locals of the finished draftMessage call are gone
    /\ firstName' = Undefined /\ nameFound' = FALSE /\ message' = Undefined
    /\ input' = 0 /\ typedText' = Undefined /\ draftResult' = NoDraft
    /\ keystrokes' = << >> /\ locator' = NoLocator
    /\ UNCHANGED << config, i, draftedCount, skippedCount, tabs, closeResult, field,
                    draftCalls, hasConversation, calls, outcome, pageOps >>

\* lines 312-322: keep the tab, or close it. close() may reject, with the tab
\* closed or not: an Error is logged (line 320), while reading
\* closeError.message of a value that is no object throws outside every try of
\* the loop and ends the run
TabAction ==
    /\ pc = "tab"
    /\ \/ /\ IF draftingSucceeded
             THEN UNCHANGED << tabs, pageOps, closeResult >>
             ELSE /\ pageOps' = pageOps \cup {"close"}
                  /\ \/ closeResult' = "ok" /\ tabs' = [tabs EXCEPT ![i] = "closed"]
                     \/ closeResult' = "fault" /\ tabs' = [tabs EXCEPT ![i] = "closed"]
                     \/ closeResult' = "fault" /\ UNCHANGED tabs
          /\ stage' = [stage EXCEPT ![i] = "settled"]
          /\ pc' = "pace"
       \/ /\ ~draftingSucceeded
          /\ pageOps' = pageOps \cup {"close"}
          /\ closeResult' \in NonErrors
          /\ tabs' \in {tabs, [tabs EXCEPT ![i] = "closed"]}
          /\ pc' = "fatal"
          /\ UNCHANGED stage
    /\ UNCHANGED << config, i, counters, sheet, lastWrite, draftingSucceeded,
                    draftVars, outcome >>

\* a variant of Pace that goes back to the loop head without the increment
PaceRepeat ==
    /\ pc = "pace"
    /\ \/ /\ IF draftedCount >= maxDraft
             THEN pc' = "summary" /\ UNCHANGED i
             ELSE pc' = "loop" /\ UNCHANGED i
          /\ result' = NewResult(NoRow)
          /\ userError' = "none"
          /\ draftingSucceeded' = FALSE
          /\ closeResult' = "none"
          /\ lastWrite' = NoWrite
          /\ field' = << >>
          /\ pageOps' = {}
          /\ draftCalls' = 0
          /\ calls' = << >>
          /\ hasConversation' = "none"
       \/ /\ pc' = "fatal"
          /\ UNCHANGED << i, outcome, draftingSucceeded, closeResult, lastWrite, field,
                          pageOps, draftCalls, calls, hasConversation >>
    /\ UNCHANGED << config, counters, tabs, stage, sheet, draftLocals, locator >>

\* lines 325-332 and the loop increment: the delay passes, and the iteration's
\* locals are gone, or it rejects outside every try of the loop and ends the run
Pace ==
    /\ pc = "pace"
    /\ \/ /\ IF draftedCount >= maxDraft
             THEN pc' = "summary" /\ UNCHANGED i
             ELSE pc' = "loop" /\ i' = i + 1
          /\ result' = NewResult(NoRow)
          /\ userError' = "none"
          /\ draftingSucceeded' = FALSE
          /\ closeResult' = "none"
          /\ lastWrite' = NoWrite
          /\ field' = << >>
          /\ pageOps' = {}
          /\ draftCalls' = 0
          /\ calls' = << >>
          /\ hasConversation' = "none"
       \/ /\ pc' = "fatal"
          /\ UNCHANGED << i, outcome, draftingSucceeded, closeResult, lastWrite, field,
                          pageOps, draftCalls, calls, hasConversation >>
    /\ UNCHANGED << config, counters, tabs, stage, sheet, draftLocals, locator >>

Summary ==
    /\ pc = "summary"
    /\ pc' = "done"
    /\ UNCHANGED << runVars, draftVars, outcome, pageOps >>

Next ==
    \/ ValidateEnv \/ LoadAllRows \/ LoadFiltered \/ DryRunReport
    \/ InitializeBrowser \/ LoopEnter \/ LoopExit \/ PreWorkDelay
    \/ Navigate \/ OpenDM \/ Probe
    \/ DraftStart \/ Locate \/ FocusClear \/ TypeChar \/ BulkInsert
    \/ Dispatch \/ Verify
    \/ Persist \/ CatchUserError \/ TabAction \/ Pace \/ Summary

Spec == Init /\ [][Next]_vars

SpecDraft == InitDraft /\ [][Next]_vars

\* the Status cell of a row after a successful updateDraftData
StatusCell(status) ==
    IF status = "Drafted" THEN << "D", "r", "a", "f", "t", "e", "d" >>
    ELSE IF status = "Convo Exists"
    THEN << "C", "o", "n", "v", "o", " ", "E", "x", "i", "s", "t", "s" >>
    ELSE << "F", "a", "i", "l", "e", "d" >>

\* the data rows as the run leaves them: the Status of every row it has
\* written successfully is the one it wrote, and its Date Sent is filled
SheetAfterRun ==
    [p \in 1..Len(database) |->
        IF sheet[p + 1] = "Pending" THEN database[p]
        ELSE [database[p] EXCEPT !.status = StatusCell(sheet[p + 1]),
                                 !.others = "filled"]]

\* usernames of the rows this run has written as Drafted
DraftedInRun ==
    { ToLowerCase(Trim(database[p].username)) :
         p \in { q \in 1..Len(database) : sheet[q + 1] = "Drafted" } }

\* the process has ended (normally, after a dry run or an empty list, or by a
\* fault) and the program is started again on the sheet as it now is, with
\* the same configuration
StartNextRun ==
    /\ pc \in {"done", "returned", "fatal"}
    /\ runs < MaxRuns
    /\ runs' = runs + 1
    /\ draftedEarlier' = draftedEarlier \cup DraftedInRun
    /\ database' = SheetAfterRun
    /\ sheet' = [r \in SheetRows |-> "Pending"]
    /\ pc' = "validate"
    /\ reads' = 0
    /\ browser' = "null"
    /\ reported' = << >>
    /\ filteredRows' = << >>
    /\ i' = 1
    /\ draftedCount' = 0 /\ skippedCount' = 0 /\ errorCount' = 0
    /\ tabs' = << >>
    /\ stage' = << >>
    /\ closeResult' = "none"
    /\ lastWrite' = NoWrite
    /\ result' = NewResult(NoRow)
    /\ userError' = "none"
    /\ draftingSucceeded' = FALSE
    /\ hasConversation' = "none"
    /\ firstName' = Undefined /\ nameFound' = FALSE /\ message' = Undefined
    /\ input' = 0 /\ typedText' = Undefined
    /\ draftResult' = NoDraft
    /\ field' = << >> /\ keystrokes' = << >>
    /\ pageOps' = {}
    /\ draftCalls' = 0
    /\ calls' = << >>
    /\ locator' = NoLocator
    /\ UNCHANGED << dryRun, processEnv, envDraftMessage, maxDraft, profileNames, site >>

\* up to MaxRuns runs of the program, one after the other, on one sheet
NextRuns == Next \/ StartNextRun

\* sheets of up to MaxRunRows accounts, each entered twice; real runs or dry runs
InitRuns == InitWith(BOOLEAN, {RunEnv, RunEnvEmptyCredentials}, {<< "H", "i" >>},
                     { RunDatabase(n) : n \in 1..MaxRunRows }, RunFirstNames, RunView)

SpecRuns == InitRuns /\ [][NextRuns]_vars

\* the steps of a dry run
NextLoad == ValidateEnv \/ LoadAllRows \/ LoadFiltered \/ DryRunReport

SpecLoad == InitLoad /\ [][NextLoad]_vars

(* ------------------------------ properties ---------------------------- *)
\* the Status the run loop writes for a result
StatusFor(r) ==
    CASE r.skipped -> "Convo Exists"
      [] ~r.skipped /\ r.success -> "Drafted"
      [] ~r.skipped /\ ~r.success -> "Failed"

\* the outcome run() takes for the account at the loop index: that of the
\* result processUser returned, or Failed when it caught a rejection of processUser
AccountOutcome == IF userError # "none" THEN "Failed" ELSE OutcomeOf(result)

\* the Status run() writes for that outcome
AccountStatus == IF userError # "none" THEN "Failed" ELSE StatusFor(result)

\* the operations draftMessage issues on the page
DraftOps == {"query", "click", "down:Control", "press:A", "up:Control",
             "press:Backspace", "type", "insertText", "dispatch:input",
             "dispatch:change", "read"}

\* every operation the program issues on a tab; none of them sends a message
NonSendingOps == DraftOps \cup {"goto", "close"}

\* positions of run() at which processUser has returned for filteredRows[i]
Returned == {"persist", "tab", "pace"}

\* positions inside processUser (draftMessage included)
ProcessSteps == {"navigate", "openDM", "probe", "draftStart", "locate", "focus",
                 "type", "bulk", "dispatch", "verify"}

\* positions of draftMessage after the message was composed
Composed == {"locate", "focus", "type", "bulk", "dispatch", "verify"}

AllWhitespace(s) == \A k \in 1..Len(s) : IsWhitespace(s[k])

\* o and m are the same text up to whitespace at their two ends
SameCore(o, m) ==
    \E a \in 1..Len(o), c \in 1..Len(m) :
    \E b \in a..Len(o), d \in c..Len(m) :
        /\ \A k \in 1..Len(o) : (k < a \/ k > b) => IsWhitespace(o[k])
        /\ \A k \in 1..Len(m) : (k < c \/ k > d) => IsWhitespace(m[k])
        /\ ~IsWhitespace(o[a]) /\ ~IsWhitespace(o[b])
        /\ ~IsWhitespace(m[c]) /\ ~IsWhitespace(m[d])
        /\ SubSeq(o, a, b) = SubSeq(m, c, d)

\* C1: once the conversation probe has reported hasConversation = true for an
\* account, draftMessage is not called for it, no drafting operation (locating
\* the input, click, keystroke, insertion, event, read-back) is issued on its
\* tab, processUser has returned, and its result is Skipped.
C1_ConversationShortCircuit ==
    hasConversation = "true" =>
        /\ draftCalls = 0
        /\ pageOps \cap DraftOps = {}
        /\ pc \notin ProcessSteps
        /\ OutcomeOf(result) = "Skipped" /\ result.skipped /\ ~result.success

C1_Witness ==
    /\ pc = "pace" /\ hasConversation = "true"
    /\ result.skipped /\ draftCalls = 0 /\ "goto" \in pageOps


ExactlyOneOutcome(r) ==
    Cardinality({ o \in {"Drafted", "Skipped", "Failed"} :
        \/ o = "Drafted" /\ r.success /\ ~r.skipped
        \/ o = "Skipped" /\ r.skipped /\ ~r.success
        \/ o = "Failed"  /\ ~r.success /\ ~r.skipped }) = 1

\* no step of processUser leaves it other than by returning to run()
ProcessUserReturns ==
    [][(pc \in ProcessSteps) => (pc' \in ProcessSteps \cup {"persist"})]_vars

\* C3 as claimed: every step of processUser either continues inside processUser
\* or returns to run() (no fault escapes it), and the result it returns is
\* exactly one of Drafted, Skipped, Failed: success and skipped are never both
\* true.
C3_OutcomeExclusivity ==
    [](pc \in Returned => ExactlyOneOutcome(result)) /\ ProcessUserReturns

\* C4 as claimed: after the tab action the account's tab is open if and only
\* if its outcome is Drafted: the tab of a Skipped or Failed account is closed.
C4_TabOpenIffDrafted ==
    pc = "pace" => (tabs[i] = "open" <=> AccountOutcome = "Drafted")

DraftedRows == { r \in SheetRows : sheet[r] = "Drafted" }

\* C5: draftedCount never exceeds maxDraft, no more than maxDraft rows are
\* written as Drafted, and once draftedCount has reached maxDraft the run is
\* past processing (at the tab action or the pacing delay of the account that
\* reached the cap, at the summary, or ended): no later account has a tab or
\* is ever started.
C5_CapEnforcement ==
    /\ draftedCount <= maxDraft
    /\ Cardinality(DraftedRows) <= maxDraft
    /\ draftedCount >= maxDraft =>
          /\ pc \in {"tab", "pace", "summary", "done", "fatal"}
          /\ \A k \in (i + 1)..Len(filteredRows) : tabs[k] = "none"

C5_Witness ==
    /\ pc = "done" /\ maxDraft = 2 /\ draftedCount = 2
    /\ Len(filteredRows) = 3 /\ i = 2
    /\ tabs = << "open", "open", "none" >>

\* C6 as claimed: no step taken while an account is being handled, the
\* allocation of its tab included, aborts the run.
C6_FaultIsolation ==
    [][(pc \in {"loop", "delay"} \cup ProcessSteps \cup Returned) => (pc' # "fatal")]_vars

\* C7 as claimed: when the write of a Drafted outcome fails the tab is kept,
\* errorCount grows by one and the account still counts in draftedCount.
C7_PersistFailureKeepsDraft ==
    [][(pc = "persist" /\ result.success /\ pc' = "tab" /\ ~lastWrite'.ok) =>
          (draftingSucceeded' /\ errorCount' = errorCount + 1
                              /\ draftedCount' = draftedCount + 1)]_vars

\* draftMessage returned from its verification step
ReachedVerification ==
    pc = "persist" /\ input # 0 /\ draftResult.message # Undefined

\* C8: when draftMessage returns from verification, it reports success exactly
\* when the text read back is present and equals the composed message up to
\* leading and trailing whitespace; and a successful draft result always has
\* typedText and message equal after trimming.
C8_VerificationEquivalence ==
    /\ ReachedVerification =>
          (draftResult.success <=>
              /\ draftResult.typedText # Undefined
              /\ SameCore(draftResult.typedText, draftResult.message))
    /\ draftResult.success =>
          /\ draftResult.typedText # Undefined
          /\ Trim(draftResult.typedText) = Trim(draftResult.message)

C8_Witness ==
    /\ ReachedVerification /\ draftResult.success
    /\ draftResult.typedText # draftResult.message
    /\ Len(draftResult.typedText) = Len(draftResult.message) + 2

\* C9: when the name was not found, or the first name is empty after
\* trimming, the composed message is the base template, unchanged.
C9_PersonalizationOnAbsence ==
    (pc \in Composed /\ (~nameFound \/ (firstName # Undefined /\ AllWhitespace(firstName))))
        => message = envDraftMessage

C9_Witness ==
    /\ pc = "locate" /\ nameFound /\ firstName = << " " >>
    /\ message = envDraftMessage

\* C10: when the name was found and is not empty after trimming, the composed
\* message is the template with " " + trimmed name inserted before its first
\* "!", or, for a template without "!", "What's up " + trimmed name + "! " +
\* template.
C10_InsertionPoint ==
    (pc \in Composed /\ nameFound /\ firstName # Undefined /\ ~AllWhitespace(firstName)) =>
        LET b == envDraftMessage
            n == Trim(firstName)
        IN  IF \E k \in 1..Len(b) : b[k] = "!"
            THEN \E k \in 1..Len(b) :
                    /\ b[k] = "!" /\ \A j \in 1..(k - 1) : b[j] # "!"
                    /\ message = SubSeq(b, 1, k - 1) \o << " " >> \o n
                                     \o SubSeq(b, k, Len(b))
            ELSE message = << "W", "h", "a", "t", "'", "s", " ", "u", "p", " " >>
                               \o n \o << "!", " " >> \o b

C10_Witness ==
    /\ pc = "locate" /\ nameFound /\ firstName = << " ", "A" >>
    /\ envDraftMessage = << "!", "!" >>
    /\ message = << " ", "A", "!", "!" >>

\* accounts whose tab is created and whose tab action is still to come
InFlight == { k \in DOMAIN stage : stage[k] \in {"allocated", "written"} }

StageOrder == << "pending", "allocated", "written", "settled" >>

StageRank(st) == CHOOSE n \in 1..4 : StageOrder[n] = st

\* an account moves one stage at a time, and its tab is created only when it
\* is the account at the loop index and every account before it is settled
SequentialSteps ==
    [][\A k \in DOMAIN stage \cap DOMAIN stage' :
          /\ stage'[k] # stage[k] =>
                /\ k = i
                /\ StageRank(stage'[k]) = StageRank(stage[k]) + 1
          /\ (stage[k] = "pending" /\ stage'[k] # "pending") =>
                /\ tabs[k] = "none" /\ tabs'[k] = "open"
                /\ \A j \in 1..(k - 1) : stage[j] = "settled"
                /\ \A j \in (k + 1)..Len(stage) : stage[j] = "pending"
          /\ (tabs[k] # tabs'[k] /\ tabs[k] = "none") => stage[k] = "pending"]_vars

\* C11: accounts are taken in the order of the filtered list, each at most
\* once; at most one account is in flight, and it is the one at the loop
\* index: every account before it has had its write-back attempt and its tab
\* action, every account after it has no tab yet; and the tab of an account is
\* created only after every account before it is settled.
C11_StrictlySequential ==
    /\ [](/\ Cardinality(InFlight) <= 1
          /\ InFlight \subseteq {i}
          /\ \A k \in DOMAIN stage :
                /\ k < i => stage[k] = "settled"
                /\ k > i => stage[k] = "pending" /\ tabs[k] = "none"
                /\ stage[k] = "pending" <=> tabs[k] = "none")
    /\ SequentialSteps

C11_Witness ==
    /\ pc = "verify" /\ i = 2 /\ filteredRows = RowsOf(3)
    /\ stage = << "settled", "allocated", "pending" >>
    /\ tabs = << "open", "open", "none" >>

\* positions of run() before browser initialisation, and its two early ends
BeforeBrowser == {"validate", "loadRows", "filter", "report", "returned", "fatal"}

\* nothing was done on a browser, a tab or the sheet
NoWork ==
    /\ browser = "null"
    /\ \A k \in DOMAIN tabs : tabs[k] = "none" /\ stage[k] = "pending"
    /\ pageOps = {} /\ draftCalls = 0 /\ hasConversation = "none"
    /\ lastWrite = NoWrite
    /\ \A r \in SheetRows : sheet[r] = "Pending"
    /\ draftedCount = 0 /\ skippedCount = 0 /\ errorCount = 0
    /\ result = NewResult(NoRow)

\* C12: in a dry run no browser is launched, no tab is created, no account is
\* navigated to or drafted and nothing is written to the sheet; the run stays
\* before browser initialisation, and when it has listed the accounts it has
\* returned.
C12_DryRunNoSideEffects ==
    dryRun =>
        /\ NoWork
        /\ pc \in BeforeBrowser
        /\ reported # << >> => pc = "returned"

C12_Witness ==
    /\ dryRun /\ pc = "returned" /\ reads = 2
    /\ Len(filteredRows) = 3 /\ Len(reported) = 2 /\ NoWork

\* accounts a run has started on
Processed == { filteredRows[k] : k \in { n \in DOMAIN stage : stage[n] # "pending" } }

\* C13 as claimed: the accounts a completed real run has processed are exactly
\* the accounts a dry run lists for the same filtered rows and configuration.
C13_DryRunFidelity ==
    /\ (dryRun /\ pc = "returned" /\ filteredRows # << >>) =>
          reported = DryRunRows(filteredRows, maxDraft)
    /\ (~dryRun /\ pc = "done") =>
          Processed = { DryRunRows(filteredRows, maxDraft)[k] :
                           k \in 1..Len(DryRunRows(filteredRows, maxDraft)) }

\* C14: when validateEnv reports an error the run ends at once: the sheet is
\* not read, no browser is launched, no tab is created, no account is
\* processed, nothing is written and no outcome is produced.
C14_ConfigErrorsFatal ==
    EnvErrors(processEnv, envDraftMessage) # {} =>
        /\ pc \in {"validate", "fatal"}
        /\ reads = 0 /\ filteredRows = << >> /\ reported = << >>
        /\ NoWork

C14_Witness ==
    /\ pc = "fatal" /\ reads = 0 /\ NoWork
    /\ EnvErrors(processEnv, envDraftMessage) = {"DRAFT_MESSAGE", "MAX_PROCCESS"}

\* run() has started on an account: the tab of some account was created
Started == \E k \in DOMAIN stage : stage[k] # "pending"

\* C15 as claimed: a run that has started on an account does not end before
\* it has emitted the final summary: it has a next step until then.  (Every
\* run is finite, so this is the eventual emission of the summary.)
C15_SummaryAlwaysReported ==
    Started => (pc = "done" \/ ENABLED Next)

\* loadFilteredDatabase has returned its rows to run()
Loaded == pc \in {"report", "returned"} /\ reads = 2

\* ACTIVATE_STATUS and SOURCE_MODE as configured: validateEnv and the loader
\* strip the whitespace around them, and SOURCE_MODE is case-insensitive
ConfiguredStatus == Trim(processEnv.activateStatus)
ConfiguredSource == ToLowerCase(Trim(processEnv.sourceMode))

\* a loaded row that passes the status filter and the source filter
Eligible(row) ==
    /\ row.status = ConfiguredStatus
    /\ ConfiguredSource # All =>
          /\ Len(row.source) = Len(ConfiguredSource)
          /\ \A n \in 1..Len(row.source) :
                ToLowerCase(<< row.source[n] >>) = << ConfiguredSource[n] >>

\* C16: every row loadFilteredDatabase returns is a loaded row whose status
\* is exactly the configured ACTIVATE_STATUS and, unless SOURCE_MODE is 'all',
\* whose source matches SOURCE_MODE; its username is not empty; no two
\* returned rows share a username; and no loaded row with the same username
\* that passes both filters stands before it in the sheet.
C16_FilterAndDedup ==
    Loaded =>
        LET allRows == LoadDatabaseRows(database)
        IN  /\ \A k \in 1..Len(filteredRows) :
                  LET row == filteredRows[k]
                  IN  /\ \E n \in 1..Len(allRows) : allRows[n] = row
                      /\ Eligible(row)
                      /\ row.username # << >>
                      /\ \A n \in 1..Len(allRows) :
                            (Eligible(allRows[n]) /\ allRows[n].username = row.username)
                                => allRows[n].rowIndex >= row.rowIndex
            /\ \A k, n \in 1..Len(filteredRows) :
                  k # n => filteredRows[k].username # filteredRows[n].username

C16_Witness ==
    /\ Loaded /\ Len(database) = 2 /\ Len(filteredRows) = 1
    /\ database[1].username = << "a" >> /\ database[1].status = ToLowerCase(Pending)
    /\ database[2].username = << "A", " " >> /\ database[2].status = PendingCell
    /\ ConfiguredSource = Likes
    /\ filteredRows[1].rowIndex = 3 /\ filteredRows[1].username = << "a" >>

\* the sheet changes only while the outcome of the account at the loop index
\* is written, and only in that account's row
WritesOnlyCurrentRow ==
    [][sheet' # sheet =>
          /\ pc \in {"persist", "caught"} /\ stage[i] = "allocated"
          /\ \A r \in SheetRows :
                sheet'[r] # sheet[r] => r = filteredRows[i].rowIndex]_vars

\* C17: every write of the run loop addresses the row of the account just
\* processed and carries the Status of its outcome: Drafted, Convo Exists or
\* Failed; no other Status is written and no row of another account changes.
C17_StatusMatchesOutcome ==
    /\ [](/\ lastWrite # NoWrite =>
                /\ pc \in {"tab", "pace", "fatal"}
                /\ lastWrite.rowIndex = filteredRows[i].rowIndex
                /\ lastWrite.rowIndex = result.rowIndex
                /\ lastWrite.status = AccountStatus
                /\ lastWrite.status = "Drafted" <=> AccountOutcome = "Drafted"
                /\ lastWrite.status = "Convo Exists" <=> AccountOutcome = "Skipped"
                /\ lastWrite.status = "Failed" <=> AccountOutcome = "Failed"
          /\ \A r \in SheetRows :
                sheet[r] # "Pending" =>
                   /\ sheet[r] \in {"Drafted", "Convo Exists", "Failed"}
                   /\ \E k \in 1..Len(filteredRows) :
                         filteredRows[k].rowIndex = r /\ stage[k] \in {"written", "settled"})
    /\ WritesOnlyCurrentRow

C17_Witness ==
    /\ pc = "tab" /\ i = 2 /\ sheet[2] = "Drafted"
    /\ result.skipped /\ lastWrite.ok
    /\ lastWrite.rowIndex = 4 /\ lastWrite.status = "Convo Exists"
    /\ sheet[4] = "Convo Exists"

\* C18 as claimed: once the write-back of an account's outcome was attempted,
\* its row carries the Status of that outcome.
C18_OutcomePersisted ==
    pc \in {"tab", "pace"} =>
        /\ lastWrite.rowIndex = filteredRows[i].rowIndex
        /\ lastWrite.status = AccountStatus
        /\ sheet[filteredRows[i].rowIndex] = AccountStatus

\* a Status written by the run stays in its row until the run ends
WrittenStatusKept ==
    [][\A r \in SheetRows : sheet[r] # "Pending" => sheet'[r] = sheet[r]]_vars

\* C18 amended: for every account that reached an outcome one write-back of
\* that outcome is attempted; when the write succeeds the row carries the
\* outcome's Status, and keeps it until the run ends; when the write throws
\* the failure is logged and the row is left as it was.
C18_OutcomeWriteAttempted ==
    /\ [](pc \in {"tab", "pace"} =>
             /\ lastWrite.rowIndex = filteredRows[i].rowIndex
             /\ lastWrite.status = AccountStatus
             /\ lastWrite.ok => sheet[filteredRows[i].rowIndex] = AccountStatus
             /\ ~lastWrite.ok => sheet[filteredRows[i].rowIndex] = "Pending")
    /\ WrittenStatusKept

C18_Witness ==
    /\ pc = "done" /\ Len(filteredRows) = 3 /\ i = 4
    /\ sheet[2] = "Failed" /\ sheet[4] = "Pending" /\ sheet[6] = "Convo Exists"
    /\ stage = << "settled", "settled", "settled" >>

\* the steps of draftMessage, in the order of its code
DraftOrder == << "draftStart", "locate", "focus", "type", "bulk", "dispatch", "verify" >>

DraftRank(p) == CHOOSE n \in 1..Len(DraftOrder) : DraftOrder[n] = p

DraftSteps == { DraftOrder[n] : n \in 1..Len(DraftOrder) }

\* draftMessage only moves forward through its steps (typing stays at its step
\* while the typed text grows by one character), it is entered only from the
\* conversation probe, and once it has returned no step of processUser
\* follows for the account
NoStepBack ==
    [][/\ (pc \in DraftSteps /\ pc' \in DraftSteps) =>
             \/ DraftRank(pc') > DraftRank(pc)
             \/ /\ pc = "type" /\ pc' = "type"
                /\ Len(keystrokes') = Len(keystrokes) + 1
       /\ (pc \notin DraftSteps /\ pc' \in DraftSteps) =>
             pc = "probe" /\ pc' = "draftStart"
       /\ (pc \in Returned) => (pc' \notin ProcessSteps)
       /\ draftCalls' # draftCalls =>
             \/ pc = "draftStart" /\ draftCalls = 0 /\ draftCalls' = 1
             \/ pc = "pace" /\ draftCalls' = 0]_vars

\* C19: draftMessage is called at most once for an account, also after it
\* failed, and one call locates, writes and verifies at most once: it never
\* returns to an earlier step.
C19_AtMostOneAttempt ==
    /\ [](/\ draftCalls <= 1
          /\ pc \in DraftSteps \ {"draftStart"} => draftCalls = 1
          /\ Cardinality({ k \in DOMAIN stage : stage[k] = "allocated" }) <= 1)
    /\ NoStepBack

C19_Witness ==
    /\ pc = "tab" /\ draftCalls = 1 /\ OutcomeOf(result) = "Failed"
    /\ result.error = "Failed to draft message: Unknown error"
    /\ "read" \in pageOps /\ lastWrite.status = "Failed"

OpenTabs == { k \in DOMAIN tabs : tabs[k] = "open" }

\* C20 as claimed: after the tab action of an account its tab is open exactly
\* when its message was drafted, and when the loop has ended the number of
\* open tabs is the draftedCount of the summary.
C20_OpenTabsEqualDrafted ==
    /\ pc = "pace" => (i \in OpenTabs <=> (result.success /\ ~result.skipped))
    /\ pc \in {"summary", "done"} => Cardinality(OpenTabs) = draftedCount

\* navigateToProfile threw for the current account
NavigationFailed ==
    /\ Len(calls) >= 1
    /\ calls[1].fn = "navigateToProfile" /\ calls[1].out = "throw"

\* the error text run() has for a value v that a call of processUser rejected
\* with: the message of an Error ("Error" when it is empty), or the message of
\* the TypeError of the catch block when v is null or undefined
FaultText(v) == IF v \in NonErrors THEN TypeErrorMessage(v) ELSE CaughtMessage(v)

\* C21: when navigation fails or lands on the login form, processUser makes no
\* further call for the account (no thread opening, no conversation probe, no
\* drafting) and the outcome is Failed: processUser returns a Failed result
\* with the navigation error (when navigation rejected with null or undefined,
\* processUser rejects and run() takes the account as Failed); the error text
\* is what is written back with Status Failed, and the run goes on to the tab
\* action, the pacing delay and the next account: only a close() that rejects
\* with a value that is no Error, or a pacing delay that rejects, ends it.
C21_NavigationShortCircuit ==
    /\ [](NavigationFailed =>
             /\ calls[1].error \in NavigationErrors
             /\ Len(calls) = 1
             /\ draftCalls = 0 /\ hasConversation = "none"
             /\ pageOps \subseteq {"goto", "close"}
             /\ pc \in {"persist", "caught", "tab", "pace", "fatal"}
             /\ AccountOutcome = "Failed"
             /\ OutcomeOf(result) = "Failed" /\ result.message = Null
             /\ IF calls[1].error \in NonErrors
                THEN userError = FaultText(calls[1].error) /\ pc # "persist"
                ELSE /\ userError = "none" /\ pc # "caught"
                     /\ result.error = FaultText(calls[1].error)
             /\ pc \in {"tab", "pace", "fatal"} =>
                   /\ lastWrite.status = "Failed"
                   /\ lastWrite.message = << "error", FaultText(calls[1].error) >>)
    /\ [][(NavigationFailed /\ pc \in {"persist", "caught"}) => (pc' = "tab")]_vars
    /\ [][(NavigationFailed /\ pc = "tab") =>
             /\ pc' \in {"pace", "fatal"}
             /\ pc' = "fatal" <=> closeResult' \in NonErrors]_vars
    /\ [][(NavigationFailed /\ pc = "pace" /\ pc' # "fatal") =>
             (pc' = "loop" /\ i' = i + 1)]_vars

C21_Witness ==
    /\ pc = "pace" /\ NavigationFailed /\ i = 1 /\ Len(filteredRows) = 2
    /\ calls[1].error = "Not logged in - redirected to login page. Run loginSeeder.js first."
    /\ lastWrite.status = "Failed" /\ lastWrite.ok /\ sheet[2] = "Failed"
    /\ tabs[1] = "closed" /\ errorCount = 1

\* openDMController reported success = false for the current account
OpenFailed ==
    /\ Len(calls) >= 2
    /\ calls[2].fn = "openDMController" /\ calls[2].out = "false"

\* C22: when openDMController returns success = false, the outcome is Failed
\* with the error the opener reported ('Unknown error' when it reported
\* none), and neither detectExistingConversation nor draftMessage is called
\* for the account.
C22_ThreadOpenFailure ==
    OpenFailed =>
        /\ calls[1] = Call("navigateToProfile", "ok", "null")
        /\ Len(calls) = 2
        /\ draftCalls = 0 /\ hasConversation = "none"
        /\ pc \in Returned \cup {"fatal"} /\ userError = "none"
        /\ OutcomeOf(result) = "Failed" /\ result.message = Null
        /\ result.error = FailedToOpenDM(calls[2].error)
        /\ calls[2].error = "Message button not found" =>
              result.error = "Failed to open DM: Message button not found"
        /\ calls[2].error \in {"null", ""} =>
              result.error = "Failed to open DM: Unknown error"
        /\ pc \in {"tab", "pace", "fatal"} => lastWrite.status = "Failed"

C22_Witness ==
    /\ pc = "tab" /\ OpenFailed /\ calls[2].error = "Message button not found"
    /\ lastWrite.status = "Failed"
    /\ lastWrite.message = << "error", "Failed to open DM: Message button not found" >>

\* { success: false }, the value of the catch block of draftMessage
BareFailure == [success |-> FALSE, firstName |-> Undefined, message |-> Undefined,
                typedText |-> Undefined]

\* the step of draftMessage that returns to processUser
DraftReturns == pc \in DraftSteps /\ pc' \notin DraftSteps

\* C23 as claimed: draftMessage always returns to processUser, which reads the result
\* (a fault inside it never reaches the catch of processUser).  A failed
\* result has one of three shapes: all five selectors were queried and none
\* matched: the composed message and no typedText; the text read back does
\* not verify: the composed message and the text that was read; a fault at
\* any step: success = false and nothing else.
C23_FailedDraftShape ==
    [][DraftReturns =>
          /\ pc' = "persist"
          /\ draftResult'.success => OutcomeOf(result') = "Drafted"
          /\ ~draftResult'.success =>
                /\ OutcomeOf(result') = "Failed"
                /\ result'.error = "Failed to draft message: Unknown error"
                /\ \/ /\ pc = "locate"
                      /\ locator'.matching = {} /\ locator'.tried = NumSelectors
                      /\ input' = 0
                      /\ message # Undefined
                      /\ draftResult'.message = message
                      /\ draftResult'.firstName = firstName
                      /\ draftResult'.typedText = Undefined
                   \/ /\ pc = "verify"
                      /\ typedText' \in Observations(field)
                      /\ ~Verified(typedText', message)
                      /\ message # Undefined
                      /\ draftResult'.message = message
                      /\ draftResult'.firstName = firstName
                      /\ draftResult'.typedText = typedText'
                   \/ /\ draftResult' = BareFailure
                      /\ UNCHANGED << input, typedText >>]_vars

\* the page operations that touch or fill the located input
WritingOps == {"click", "down:Control", "press:A", "up:Control", "press:Backspace",
               "type", "insertText"}

\* C24: the five selectors are queried in the order of the list; the element
\* used is the one of the first selector that matches and no selector after
\* it is queried; when none matches all five were queried, the draft fails
\* and the page is neither clicked, cleared, typed into nor inserted into.
C24_LocatorPriority ==
    /\ [](/\ Len(Selectors) = NumSelectors
          /\ Selectors[1] = "p[contenteditable=\"true\"]"
          /\ Selectors[4] = "textarea"
          /\ (pc \in ProcessSteps \cup {"persist", "caught"} /\ input = 0) =>
                /\ pageOps \cap WritingOps = {}
                /\ field = << >> /\ keystrokes = << >>
          /\ pc = "focus" =>
                /\ input \in locator.matching
                /\ \A j \in locator.matching : input <= j
                /\ locator.tried = input)
    /\ [][(pc = "locate" /\ locator' # locator) =>
             /\ locator'.matching \subseteq 1..Len(Selectors)
             /\ locator'.tried \in 1..Len(Selectors)
             /\ \A j \in locator'.matching : locator'.tried <= j
             /\ pc' = "focus" =>
                   /\ input' \in locator'.matching
                   /\ \A j \in locator'.matching : input' <= j
                   /\ locator'.tried = input'
             /\ pc' # "focus" =>
                   /\ input' = 0
                   /\ pc' = "persist" /\ ~draftResult'.success
                   /\ OutcomeOf(result') = "Failed"
                   \* the not-found result is returned only when all five
                   \* selectors were queried and none matched; otherwise a
                   \* query threw
                   /\ draftResult'.message # Undefined <=>
                         (locator'.matching = {} /\ locator'.tried = Len(Selectors)
                             /\ draftResult'.typedText = Undefined
                             /\ draftResult'.message = message)]_vars

C24_Witness ==
    /\ pc = "focus" /\ locator.matching = {2, 4} /\ input = 2 /\ locator.tried = 2
    /\ pageOps \cap WritingOps = {}

\* the select-all and Backspace that empty the input
ClearOps == {"down:Control", "press:A", "up:Control", "press:Backspace"}

NotifyOps == {"dispatch:input", "dispatch:change"}

TypedLen(m) == Min(FirstTenLen, Len(m))

\* C25: the input is cleared before anything is written; the first
\* min(10, length) characters of the message are typed one keystroke at a
\* time, in order; the rest is inserted by one insertText, issued only when
\* the message has more than 10 characters; typed and inserted text together
\* are the message; input and change are dispatched when all text is written
\* and before the text is read back.
C25_TypedInputSplit ==
    /\ [](/\ pc \in {"type", "bulk", "dispatch", "verify"} =>
                /\ ClearOps \subseteq pageOps
                /\ keystrokes = SubSeq(message, 1, Len(keystrokes))
                /\ Len(keystrokes) <= TypedLen(message)
                /\ "read" \notin pageOps
          /\ pc = "type" =>
                /\ field = keystrokes
                /\ Len(keystrokes) < TypedLen(message)
                /\ "insertText" \notin pageOps /\ pageOps \cap NotifyOps = {}
          /\ pc = "bulk" =>
                /\ Len(message) > FirstTenLen
                /\ Len(keystrokes) = FirstTenLen
                /\ field = keystrokes
                /\ "insertText" \notin pageOps /\ pageOps \cap NotifyOps = {}
          /\ pc = "dispatch" =>
                /\ Len(keystrokes) = TypedLen(message)
                /\ field = message
                /\ "insertText" \in pageOps <=> Len(message) > FirstTenLen
                /\ pageOps \cap NotifyOps = {}
          /\ pc = "verify" =>
                /\ field = message
                /\ NotifyOps \subseteq pageOps
          /\ (pc \in ProcessSteps \cup {"persist"} /\ "read" \in pageOps) =>
                NotifyOps \subseteq pageOps)
    /\ [][/\ (pc = "focus" /\ pc' # "persist") =>
                /\ field' = << >> /\ keystrokes' = << >>
                /\ pc' = "type"
          /\ pc = "type" =>
                \/ /\ Len(keystrokes') = Len(keystrokes) + 1
                   /\ keystrokes' = Append(keystrokes, message[Len(keystrokes') ])
                   /\ field' = Append(field, message[Len(keystrokes')])
                   /\ pc' = IF Len(keystrokes') < TypedLen(message) THEN "type"
                            ELSE IF Len(message) > FirstTenLen THEN "bulk"
                            ELSE "dispatch"
                \/ pc' = "persist"
          /\ (pc = "bulk" /\ pc' # "persist") =>
                /\ pc' = "dispatch"
                /\ field' = keystrokes \o SubSeq(message, FirstTenLen + 1, Len(message))
                /\ keystrokes' = keystrokes]_vars

C25_Witness ==
    /\ pc = "verify" /\ Len(message) = FirstTenLen + 1
    /\ Len(keystrokes) = FirstTenLen /\ field = message
    /\ "insertText" \in pageOps /\ NotifyOps \subseteq pageOps

\* C26: for the account at the loop index the loop body runs, in this order
\* and each once: newPage (the tab), processUser, one updateDraftData
\* attempt with the outcome, the tab action (keep or close), the pacing
\* delay.  The loop is left only at its head, when the list is exhausted, by
\* the cap check that follows the pacing delay, so after the tab action of
\* the account that reached the cap, or by a throw outside the try blocks of
\* the loop body, which ends the run: of newPage, of one of the two delays,
\* or of the handler of a close() that rejected with a value that is no Error.
C26_StepOrder ==
    /\ [](/\ pc = "loop" => draftedCount < maxDraft
          /\ pc \in {"delay"} \cup ProcessSteps \cup {"persist", "caught"} =>
                /\ stage[i] = "allocated" /\ tabs[i] = "open" /\ lastWrite = NoWrite
          /\ pc = "caught" <=> userError # "none" /\ stage[i] = "allocated"
          /\ pc = "tab" => stage[i] = "written" /\ lastWrite # NoWrite
          /\ pc = "pace" => stage[i] = "settled" /\ lastWrite # NoWrite)
    /\ [][/\ pc = "loop" =>
                /\ pc' \in {"delay", "summary", "fatal"}
                /\ pc' = "delay" =>
                      /\ stage[i] = "pending" /\ stage'[i] = "allocated"
                      /\ tabs[i] = "none" /\ tabs'[i] = "open"
                /\ pc' = "summary" => i = Len(filteredRows) + 1
          /\ pc = "delay" => pc' \in {"navigate", "fatal"}
          /\ pc \in ProcessSteps => pc' \in ProcessSteps \cup {"persist", "caught"}
          /\ pc \in {"delay"} \cup ProcessSteps =>
                UNCHANGED << i, counters, stage, tabs, sheet, lastWrite >>
          /\ pc \in {"persist", "caught"} =>
                /\ pc' = "tab"
                /\ lastWrite'.rowIndex = filteredRows[i].rowIndex
                /\ lastWrite'.status = AccountStatus
                /\ stage' = [stage EXCEPT ![i] = "written"]
                /\ UNCHANGED << i, tabs, outcome >>
          /\ pc = "tab" =>
                /\ pc' \in {"pace", "fatal"}
                /\ pc' = "pace" => stage' = [stage EXCEPT ![i] = "settled"]
                /\ pc' = "fatal" => closeResult' \in NonErrors /\ UNCHANGED stage
                /\ "close" \in pageOps' <=> AccountOutcome # "Drafted"
                /\ tabs'[i] = "closed" => "close" \in pageOps'
                /\ UNCHANGED << i, counters, sheet, lastWrite, outcome >>
          /\ pc = "pace" =>
                /\ pc' \in {"loop", "summary", "fatal"}
                /\ pc' = "summary" => draftedCount >= maxDraft
                /\ pc' = "loop" => draftedCount < maxDraft /\ i' = i + 1
                /\ UNCHANGED << counters, stage, tabs, sheet >>
          /\ pc' = "summary" => pc \in {"loop", "pace"}]_vars

C26_Witness ==
    /\ pc = "pace" /\ i = 2 /\ Len(filteredRows) = 3
    /\ maxDraft = 1 /\ draftedCount = 1
    /\ stage = << "settled", "settled", "pending" >>
    /\ tabs = << "closed", "open", "none" >>
    /\ lastWrite.status = "Drafted" /\ lastWrite.rowIndex = 4

CounterSum == draftedCount + skippedCount + errorCount

\* accounts whose outcome run() has counted
Counted == { k \in DOMAIN stage : stage[k] \in {"written", "settled"} }

\* C27: the three counters start at 0 and never decrease; the branch taken
\* for an account adds 1 to exactly one of them and leaves the other two, and
\* nothing else changes them; so their sum is the number of accounts
\* processed, which at the head of the loop is every account before the
\* loop index.
C27_CounterAccounting ==
    /\ [](/\ CounterSum = Cardinality(Counted)
          /\ pc = "loop" => CounterSum = i - 1
          /\ pc \in {"validate", "loadRows", "filter", "report", "returned", "browser"} =>
                CounterSum = 0 /\ i = 1
          /\ draftedCount >= 0 /\ skippedCount >= 0 /\ errorCount >= 0)
    /\ [][/\ draftedCount' >= draftedCount
          /\ skippedCount' >= skippedCount
          /\ errorCount' >= errorCount
          /\ counters' # counters => pc \in {"persist", "caught"}
          /\ pc \in {"persist", "caught"} =>
                /\ Cardinality({ c \in 1..3 : counters'[c] = counters[c] + 1 }) = 1
                /\ Cardinality({ c \in 1..3 : counters'[c] = counters[c] }) = 2]_vars

C27_Witness ==
    /\ pc = "loop" /\ i = 4
    /\ draftedCount = 1 /\ skippedCount = 1 /\ errorCount = 1
    /\ sheet[2] = "Convo Exists" /\ sheet[4] = "Pending" /\ sheet[6] = "Drafted"

\* the reasons processUser gives for skipping an account
SkipReasons == { ExistingConversation(n) : n \in MessageCounts }

\* C28: every result processUser returns carries the username and rowIndex
\* of the account's row; a Drafted result carries the composed message and no
\* error; a Skipped result carries the existing-conversation reason with the
\* message count and no message; a Failed result carries an error
\* description and no message.
C28_OutcomePayload ==
    (pc \in Returned /\ userError = "none") =>
        /\ result.username = filteredRows[i].username
        /\ result.rowIndex = filteredRows[i].rowIndex
        /\ OutcomeOf(result) = "Drafted" =>
              /\ result.error = "null"
              /\ result.message # Null /\ result.message # Undefined
              /\ Len(result.message) > 0
              /\ pc = "persist" =>
                    /\ result.message = message
                    /\ result.message =
                          ComposeMessage(BaseMessage(envDraftMessage), firstName, nameFound)
        /\ OutcomeOf(result) = "Skipped" =>
              /\ result.error \in SkipReasons
              /\ result.message = Null
              /\ ~result.success
        /\ OutcomeOf(result) = "Failed" =>
              /\ result.error \notin {"null", ""} \cup SkipReasons
              /\ result.message = Null

C28_Witness ==
    /\ pc = "persist" /\ OutcomeOf(result) = "Drafted"
    /\ envDraftMessage = << "H", "i" >> /\ firstName = << "A" >> /\ nameFound
    /\ result.message = << "W", "h", "a", "t", "'", "s", " ", "u", "p", " ", "A", "!",
                           " ", "H", "i" >>
    /\ result.error = "null" /\ result.rowIndex = 2

\* C29 as claimed: when the write-back of an account's outcome fails, it is
\* not attempted again, the outcome and the tab action stay those of the
\* outcome (keep for Drafted, close for Skipped and Failed), the failure is
\* counted in errorCount, and the run goes on to the tab action and the next
\* account.
C29_PersistenceFailureKeepsDecision ==
    [][/\ (pc \in {"persist", "caught"} /\ ~lastWrite'.ok) =>
             /\ pc' = "tab"
             /\ result' = result
             /\ sheet' = sheet
             /\ draftingSucceeded' = (AccountOutcome = "Drafted")
             /\ errorCount' = errorCount + 1
       /\ (pc \in {"tab", "pace"} /\ ~lastWrite.ok) =>
             /\ lastWrite' \in {lastWrite, NoWrite}
             /\ sheet' = sheet
             /\ pc' \in {"pace", "loop", "summary"}
             /\ pc = "tab" =>
                   ("close" \in pageOps' <=> AccountOutcome # "Drafted")]_vars

\* the positions, among the loaded rows, of the first eligible row of every
\* username
EligibleFirsts(allRows) ==
    { n \in 1..Len(allRows) :
        /\ Eligible(allRows[n])
        /\ allRows[n].username # << >>
        /\ \A m \in 1..(n - 1) :
              ~(Eligible(allRows[m]) /\ allRows[m].username = allRows[n].username) }

\* C30: loadFilteredDatabase returns the rows in sheet order, and they are
\* exactly the first min(MAX_PROCCESS, k) of the k deduplicated eligible
\* rows: the cap is applied last, so the result never has more than
\* MAX_PROCCESS rows and loses none to duplicates or ineligible rows that
\* stand before eligible ones.
C30_CapAfterFilter ==
    Loaded =>
        LET allRows == LoadDatabaseRows(database)
            firsts == EligibleFirsts(allRows)
            cap == processEnv.maxProcess
        IN  /\ Len(filteredRows) <= cap
            /\ Len(filteredRows) = Min(cap, Cardinality(firsts))
            /\ \A j \in 1..Len(filteredRows) :
                  \E n \in firsts :
                     /\ filteredRows[j] = allRows[n]
                     /\ Cardinality({ m \in firsts : m < n }) = j - 1
            /\ \A j \in 1..(Len(filteredRows) - 1) :
                  filteredRows[j].rowIndex < filteredRows[j + 1].rowIndex

\* a duplicate stands before an eligible row: the rows of a, A and Σ with a
\* cap of 2 give the rows of a and Σ, sheet rows 2 and 4
C30_Witness ==
    /\ pc = "report" /\ reads = 2 /\ processEnv.maxProcess = 2
    /\ database = << AccountRow(<< "a" >>), AccountRow(<< "A", " " >>),
                     AccountRow(<< "Σ" >>) >>
    /\ Len(filteredRows) = 2
    /\ filteredRows[1].rowIndex = 2 /\ filteredRows[1].username = << "a" >>
    /\ filteredRows[2].rowIndex = 4 /\ filteredRows[2].username = << "σ" >>

\* the structured row r is the data row at sheet row r.rowIndex (sheet row 1
\* is the header, data row p is sheet row p + 1)
ReadFromItsRow(r) ==
    /\ r.rowIndex \in 2..(Len(database) + 1)
    /\ LET row == database[r.rowIndex - 1]
       IN  /\ ~IsBlankRow(row)
           /\ r.username = ToLowerCase(Trim(row.username))
           /\ r.source = Trim(row.source)
           /\ r.status = Trim(row.status)

\* C31: once the sheet is loaded, every row loadDatabaseRows returns carries
\* as rowIndex its 1-based position in the sheet, also when blank rows before
\* it were dropped; every row that is not blank is returned; the rowIndex
\* values are strictly increasing; and the rows handed to the run loop keep
\* that rowIndex, so a write addressed by it reaches the sheet row the
\* account was read from.
C31_StableRowIdentity ==
    Loaded =>
        LET allRows == LoadDatabaseRows(database)
        IN  /\ \A k \in 1..Len(allRows) : ReadFromItsRow(allRows[k])
            /\ \A p \in 1..Len(database) :
                  ~IsBlankRow(database[p]) =>
                     \E k \in 1..Len(allRows) : allRows[k].rowIndex = p + 1
            /\ \A k \in 1..(Len(allRows) - 1) :
                  allRows[k].rowIndex < allRows[k + 1].rowIndex
            /\ \A j \in 1..Len(filteredRows) :
                  /\ ReadFromItsRow(filteredRows[j])
                  /\ \E k \in 1..Len(allRows) : allRows[k] = filteredRows[j]

C31_Witness ==
    /\ pc = "report" /\ reads = 2 /\ Len(database) = 2
    /\ database[1] = BlankRow /\ database[2].username = << "A", " " >>
    /\ Len(filteredRows) = 1
    /\ filteredRows[1].rowIndex = 3 /\ filteredRows[1].username = << "a" >>

\* C32 as claimed: once a run has drafted a username and written its row as
\* Drafted, no later run on the same sheet with the same ACTIVATE_STATUS
\* processes that username again.
C32_NoRedraftAcrossRuns ==
    \A k \in DOMAIN stage :
        stage[k] # "pending" => filteredRows[k].username \notin draftedEarlier

\* steps one iteration of the loop can still take, by position; at the typing
\* step every keystroke typed leaves one fewer
StepsLeft ==
    CASE pc = "delay" -> 40
      [] pc = "navigate" -> 39
      [] pc = "openDM" -> 38
      [] pc = "probe" -> 37
      [] pc = "draftStart" -> 36
      [] pc = "locate" -> 35
      [] pc = "focus" -> 34
      [] pc = "type" -> 33 - Len(keystrokes)
      [] pc = "bulk" -> 22
      [] pc = "dispatch" -> 21
      [] pc = "verify" -> 20
      [] pc \in {"persist", "caught"} -> 19
      [] pc = "tab" -> 18
      [] pc = "pace" -> 1
      [] OTHER -> 0

IterationLen == 41

\* more than any run over the sheets of the bounds can take in its loop
LoopMax == (MaxRows + MaxDataRows + MaxRunRows + 2) * IterationLen + 2

\* an upper bound of the number of steps the run can still take
Measure ==
    CASE pc = "validate" -> LoopMax + 4
      [] pc = "loadRows" -> LoopMax + 3
      [] pc = "filter" -> LoopMax + 2
      [] pc \in {"report", "browser"} -> LoopMax + 1
      [] pc = "loop" -> (Len(filteredRows) - i + 1) * IterationLen + 2
      [] pc \in {"delay", "pace", "persist", "caught", "tab"} \cup ProcessSteps ->
            (Len(filteredRows) - i) * IterationLen + 2 + StepsLeft
      [] pc = "summary" -> 1
      [] OTHER -> 0

\* C33: every step of the run lowers a bound on the steps that remain, so the
\* run ends, and the loop index never passes the end of the filtered list; a
\* tab is created only for the account at the loop index, which has none, so
\* no more tabs are created than the list has rows; and every account for
\* which processUser was called goes on, without the run ending, to exactly
\* one outcome (the result processUser returns or, when it rejects, the Failed
\* of the catch of run()), for which a write-back is attempted before the tab
\* action.
C33_RunTerminates ==
    /\ [](/\ Measure >= 0
          /\ i \in 1..(Len(filteredRows) + 1)
          /\ Cardinality({ k \in DOMAIN tabs : tabs[k] # "none" }) <= Len(filteredRows)
          /\ pc \in {"delay"} \cup ProcessSteps =>
                stage[i] = "allocated" /\ ENABLED Next
          /\ pc \in Returned \cup {"caught"} =>
                /\ userError = "none" => ExactlyOneOutcome(result)
                /\ AccountOutcome \in {"Drafted", "Skipped", "Failed"}
          /\ pc \in {"tab", "pace"} =>
                lastWrite.status = AccountStatus /\ stage[i] \in {"written", "settled"}
          /\ pc \in {"summary", "done"} =>
                \A k \in DOMAIN stage : stage[k] \in {"pending", "settled"})
    /\ [][/\ Measure' < Measure
          /\ pc \in ProcessSteps => pc' \in ProcessSteps \cup {"persist", "caught"}
          /\ pc \in {"persist", "caught"} => pc' = "tab"
          /\ pc = "tab" => pc' \in {"pace", "fatal"}
          /\ \A k \in DOMAIN tabs \cap DOMAIN tabs' :
                (tabs[k] = "none" /\ tabs'[k] # "none") => (k = i /\ pc = "loop")
          /\ pc = "loop" => tabs' = tabs \/ tabs[i] = "none"]_vars

C33_Witness ==
    /\ pc = "done" /\ Len(filteredRows) = 3 /\ i = 4
    /\ tabs = << "closed", "open", "closed" >>
    /\ draftedCount = 1 /\ skippedCount = 1 /\ errorCount = 1

====
